---- MODULE Spec2Model ----
(***************************************************************************)
(* Verification model of the compiletools analysis core:                   *)
(*   - SimplePreprocessor (simple_preprocessor.py): the conditional        *)
(*     compilation evaluator, its expression evaluation and its            *)
(*     (content_hash, macro_hash) cache of active lines;                   *)
(*   - preprocessing_cache.py: the two-tier (invariant / variant) cache    *)
(*     in front of the evaluator;                                          *)
(*   - headerdeps.py: the include traversal of DirectHeaderDeps;           *)
(*   - magicflags.py: the fixed-point loop of DirectMagicFlags.readfile.   *)
(*                                                                         *)
(* Text is modelled as sequences of tokens: a macro value or an #if        *)
(* condition is a sequence of strings, each one identifier, number or      *)
(* operator.  Line numbers are 0-based as in the source; line i of a file  *)
(* is lines[i+1].                                                          *)
(***************************************************************************)
EXTENDS Integers, Sequences, FiniteSets, TLC

\* ------------------------------------------------------------------------
\* Bounds of the model
\* ------------------------------------------------------------------------
\* Longest file (in lines) of the generated file universe of SpecEval.
MaxLines == 3
\* Largest number of get_or_compute / process_structured calls in one run.
MaxCalls == 2

\* ------------------------------------------------------------------------
\* Tokens, macro environments
\* ------------------------------------------------------------------------
\* The macro names of the model, in the order sorted() gives them.
NameOrder == <<"A", "B">>
MacroNames == {NameOrder[i] : i \in 1..Len(NameOrder)}

\* Numbers that occur as tokens, with their integer value.
NumTokens == {"0", "1", "2"}

NumVal(t) ==
  CASE t = "0" -> 0
    [] t = "1" -> 1
    [] t = "2" -> 2
    [] OTHER -> 0

OpTokens == {"!", "==", "!=", "&&", "||"}

IsNum(t) == t \in NumTokens
IsOp(t) == t \in OpTokens
IsIdent(t) == ~IsNum(t) /\ ~IsOp(t)

\* A macro environment maps the defined names to their values.
EmptyEnv == [n \in {} |-> <<>>]

EnvSet(env, n, v) == [m \in (DOMAIN env) \cup {n} |-> IF m = n THEN v ELSE env[m]]
EnvDel(env, n) == [m \in (DOMAIN env) \ {n} |-> env[m]]

\* ------------------------------------------------------------------------
\* Lines and files (the FileAnalysisResult consumed by the evaluator)
\* ------------------------------------------------------------------------
\* t: directive_type ("text" for a line without directive),
\* n: macro_name (or the file name of an #include, the key of a magic flag),
\* v: macro_value (<<>> is None),  c: condition (<<>> is None),
\* k: continuation_lines.
Line(t, n, v, c, k) == [t |-> t, n |-> n, v |-> v, c |-> c, k |-> k]

TextLine == Line("text", "", <<>>, <<>>, 0)
Define(n, v) == Line("define", n, v, <<>>, 0)
Undef(n) == Line("undef", n, <<>>, <<>>, 0)
Ifdef(n) == Line("ifdef", n, <<>>, <<>>, 0)
Ifndef(n) == Line("ifndef", n, <<>>, <<>>, 0)
If(c) == Line("if", "", <<>>, c, 0)
Elif(c) == Line("elif", "", <<>>, c, 0)
Else == Line("else", "", <<>>, <<>>, 0)
Endif == Line("endif", "", <<>>, <<>>, 0)
Include(f) == Line("include", f, <<>>, <<>>, 0)
Magic(key, val) == Line("magic", key, val, <<>>, 0)

\* A magic flag is a comment: the evaluator sees a regular line.
IsDirective(ln) == ln.t \notin {"text", "magic"}

line_count(fa) == Len(fa)

\* sorted(file_result.directive_by_line.keys())
RECURSIVE directive_lines_from(_, _)
directive_lines_from(fa, i) ==
  IF i >= Len(fa) THEN <<>>
  ELSE IF IsDirective(fa[i + 1])
       THEN <<i>> \o directive_lines_from(fa, i + 1)
       ELSE directive_lines_from(fa, i + 1)

directive_lines(fa) == directive_lines_from(fa, 0)

\* The file's bytes decide its content hash; the model identifies the
\* hash with the content.
content_hash(fa) == fa

\* ------------------------------------------------------------------------
\* Expression evaluation (#if / #elif)
\* ------------------------------------------------------------------------
\* _expand_defined: "defined X" becomes "1" or "0".
RECURSIVE expand_defined(_, _)
expand_defined(expr, macros) ==
  IF expr = <<>> THEN <<>>
  ELSE IF Head(expr) = "defined" /\ Len(expr) >= 2 /\ expr[2] \notin NumTokens \cup OpTokens
       THEN <<IF expr[2] \in DOMAIN macros THEN "1" ELSE "0">>
              \o expand_defined(SubSeq(expr, 3, Len(expr)), macros)
       ELSE <<Head(expr)>> \o expand_defined(Tail(expr), macros)

\* The identifier scan of _expand_macros_sz: a name of the environment is
\* replaced by its value and the scan resumes after the inserted value; any
\* other identifier is left in place.
RECURSIVE replace_identifiers(_, _)
replace_identifiers(expr, macros) ==
  IF expr = <<>> THEN <<>>
  ELSE (IF Head(expr) \in DOMAIN macros /\ Head(expr) \notin {"and", "or", "not"}
        THEN macros[Head(expr)]
        ELSE <<Head(expr)>>) \o replace_identifiers(Tail(expr), macros)

expand_macros_sz(expr, macros) == replace_identifiers(expand_defined(expr, macros), macros)

max_iterations == 10

\* _recursive_expand_macros_sz: repeat until nothing changes, at most
\* max_iterations passes; previous_expr starts as the empty string.
RECURSIVE expand_loop(_, _, _, _)
expand_loop(expr, previous_expr, iteration, macros) ==
  IF expr # previous_expr /\ iteration < max_iterations
  THEN expand_loop(expand_macros_sz(expr, macros), expr, iteration + 1, macros)
  ELSE expr

recursive_expand_macros_sz(expr, macros) == expand_loop(expr, <<>>, 0, macros)

\* Index of the first occurrence of token op in ts, 0 if there is none.
FirstIdx(ts, op) ==
  IF \E i \in 1..Len(ts) : ts[i] = op
  THEN CHOOSE i \in 1..Len(ts) : ts[i] = op /\ \A j \in 1..(i - 1) : ts[j] # op
  ELSE 0

\* Python's grammar for the translated expression:
\*   or_test := and_test ("or" and_test)*,  and_test := not_test ("and" not_test)*
\*   not_test := "not" not_test | comparison,  comparison := num (op num)*
ValidCmp(ts) ==
  /\ Len(ts) % 2 = 1
  /\ \A i \in 1..Len(ts) : IF i % 2 = 1 THEN IsNum(ts[i]) ELSE ts[i] \in {"==", "!="}

TruthCmp(ts) ==
  IF Len(ts) = 1 THEN NumVal(ts[1]) # 0
  ELSE \A i \in 1..Len(ts) : i % 2 = 0 =>
         IF ts[i] = "==" THEN NumVal(ts[i - 1]) = NumVal(ts[i + 1])
                         ELSE NumVal(ts[i - 1]) # NumVal(ts[i + 1])

RECURSIVE ValidNot(_)
ValidNot(ts) ==
  IF ts = <<>> THEN FALSE
  ELSE IF Head(ts) = "!" THEN ValidNot(Tail(ts)) ELSE ValidCmp(ts)

RECURSIVE TruthNot(_)
TruthNot(ts) == IF Head(ts) = "!" THEN ~TruthNot(Tail(ts)) ELSE TruthCmp(ts)

RECURSIVE ValidAnd(_)
ValidAnd(ts) ==
  LET i == FirstIdx(ts, "&&")
  IN IF i = 0 THEN ValidNot(ts)
     ELSE ValidNot(SubSeq(ts, 1, i - 1)) /\ ValidAnd(SubSeq(ts, i + 1, Len(ts)))

RECURSIVE TruthAnd(_)
TruthAnd(ts) ==
  LET i == FirstIdx(ts, "&&")
  IN IF i = 0 THEN TruthNot(ts)
     ELSE TruthNot(SubSeq(ts, 1, i - 1)) /\ TruthAnd(SubSeq(ts, i + 1, Len(ts)))

RECURSIVE ValidOr(_)
ValidOr(ts) ==
  LET i == FirstIdx(ts, "||")
  IN IF i = 0 THEN ValidAnd(ts)
     ELSE ValidAnd(SubSeq(ts, 1, i - 1)) /\ ValidOr(SubSeq(ts, i + 1, Len(ts)))

RECURSIVE TruthOr(_)
TruthOr(ts) ==
  LET i == FirstIdx(ts, "||")
  IN IF i = 0 THEN TruthAnd(ts)
     ELSE TruthAnd(SubSeq(ts, 1, i - 1)) \/ TruthOr(SubSeq(ts, i + 1, Len(ts)))

\* _safe_eval: raises ValueError when a character outside the allowed set is
\* left (every identifier other than and/or/not has one); an expression that
\* Python cannot evaluate yields 0.
safe_eval(expr) ==
  IF expr = <<>> \/ \E i \in 1..Len(expr) : IsIdent(expr[i])
  THEN [raised |-> TRUE, result |-> FALSE]
  ELSE [raised |-> FALSE, result |-> ValidOr(expr) /\ TruthOr(expr)]

evaluate_expression_sz(expr, macros) == safe_eval(recursive_expand_macros_sz(expr, macros))

\* ------------------------------------------------------------------------
\* The conditional-compilation state machine (SimplePreprocessor)
\* ------------------------------------------------------------------------
\* A frame is <<is_active, seen_else, any_condition_met>>.
Frame(active, seen_else, any_met) == <<active, seen_else, any_met>>
BottomFrame == Frame(TRUE, FALSE, FALSE)

Top(stack) == stack[Len(stack)]
Pop(stack) == SubSeq(stack, 1, Len(stack) - 1)

\* The handlers return the evaluator state st = [stack, macros] they leave.
\* A #define that does not look at the top frame.
handle_define_unconditional(d, st) ==
  IF d.n # ""
  THEN [st EXCEPT !.macros = EnvSet(st.macros, d.n, IF d.v # <<>> THEN d.v ELSE <<"1">>)]
  ELSE st

handle_define_structured(d, st) ==
  IF ~Top(st.stack)[1] THEN st
  ELSE IF d.n # ""
       THEN [st EXCEPT !.macros = EnvSet(st.macros, d.n, IF d.v # <<>> THEN d.v ELSE <<"1">>)]
       ELSE st

\* An #undef that leaves the macros as they are.
handle_undef_ignored(d, st) == st

handle_undef_structured(d, st) ==
  IF ~Top(st.stack)[1] THEN st
  ELSE IF d.n # "" /\ d.n \in DOMAIN st.macros
       THEN [st EXCEPT !.macros = EnvDel(st.macros, d.n)]
       ELSE st

handle_ifdef_structured(d, st) ==
  IF d.n # ""
  THEN LET is_active == (d.n \in DOMAIN st.macros) /\ Top(st.stack)[1]
       IN [st EXCEPT !.stack = Append(st.stack, Frame(is_active, FALSE, is_active))]
  ELSE st

handle_ifndef_structured(d, st) ==
  IF d.n # ""
  THEN LET is_active == (d.n \notin DOMAIN st.macros) /\ Top(st.stack)[1]
       IN [st EXCEPT !.stack = Append(st.stack, Frame(is_active, FALSE, is_active))]
  ELSE st

\* An #if that takes its branch when the evaluation raised.
if_frame_taken_on_error(st, r) ==
  IF r.raised THEN Frame(Top(st.stack)[1], FALSE, Top(st.stack)[1])
  ELSE Frame(r.result /\ Top(st.stack)[1], FALSE, r.result /\ Top(st.stack)[1])

\* The frame #if pushes once its condition has been evaluated to r: an
\* inactive one when the evaluation raised.
if_frame(st, r) ==
  IF r.raised THEN Frame(FALSE, FALSE, FALSE)
  ELSE Frame(r.result /\ Top(st.stack)[1], FALSE, r.result /\ Top(st.stack)[1])

handle_if_structured(d, st) ==
  IF d.c # <<>>
  THEN [st EXCEPT !.stack = Append(st.stack, if_frame(st, evaluate_expression_sz(d.c, st.macros)))]
  ELSE [st EXCEPT !.stack = Append(st.stack, Frame(FALSE, FALSE, FALSE))]

\* The frame #elif leaves in place of f once its condition has been
\* evaluated to r; parent_active is the frame below.
elif_frame(f, parent_active, r) ==
  IF r.raised THEN Frame(FALSE, FALSE, f[3])
  ELSE Frame(r.result /\ parent_active, FALSE, f[3] \/ (r.result /\ parent_active))

\* condition_stack[-1][0] if condition_stack else True, read after the pop.
parent_active_of(rest) == IF rest # <<>> THEN Top(rest)[1] ELSE TRUE

handle_elif_structured(d, st) ==
  IF Len(st.stack) <= 1 THEN st
  ELSE LET f == Top(st.stack)
           rest == Pop(st.stack)
       IN IF ~f[2] /\ ~f[3] /\ d.c # <<>>
          THEN [st EXCEPT !.stack =
                  Append(rest, elif_frame(f, parent_active_of(rest),
                                          evaluate_expression_sz(d.c, st.macros)))]
          ELSE [st EXCEPT !.stack = Append(rest, Frame(FALSE, f[2], f[3]))]

\* The frame #else leaves in place of the popped frame f.
else_frame(f, parent_active) ==
  IF ~f[2]
  THEN Frame(~f[3] /\ parent_active, TRUE, f[3] \/ (~f[3] /\ parent_active))
  ELSE Frame(FALSE, TRUE, f[3])

\* An #else without the test of the stack's length.
handle_else_unguarded(st) ==
  [st EXCEPT !.stack = Append(Pop(st.stack),
                              else_frame(Top(st.stack), parent_active_of(Pop(st.stack))))]

handle_else(st) ==
  IF Len(st.stack) <= 1 THEN st
  ELSE [st EXCEPT !.stack = Append(Pop(st.stack),
                                   else_frame(Top(st.stack), parent_active_of(Pop(st.stack))))]

handle_endif(st) ==
  IF Len(st.stack) > 1 THEN [st EXCEPT !.stack = Pop(st.stack)] ELSE st

\* The directive types _handle_directive_structured handles itself
\* (it returns True for them, False for #include and every other one).
HandledTypes == {"define", "undef", "ifdef", "ifndef", "if", "elif", "else", "endif"}

handle_directive_structured(d, st) ==
  CASE d.t = "define" -> handle_define_structured(d, st)
    [] d.t = "undef"  -> handle_undef_structured(d, st)
    [] d.t = "ifdef"  -> handle_ifdef_structured(d, st)
    [] d.t = "ifndef" -> handle_ifndef_structured(d, st)
    [] d.t = "if"     -> handle_if_structured(d, st)
    [] d.t = "elif"   -> handle_elif_structured(d, st)
    [] d.t = "else"   -> handle_else(st)
    [] d.t = "endif"  -> handle_endif(st)
    [] OTHER -> st

\* The lines i+1 .. i+k that exist in the file, in order.
RECURSIVE continuation_range(_, _, _)
continuation_range(i, j, k) ==
  IF j >= k THEN <<>> ELSE <<i + j + 1>> \o continuation_range(i, j + 1, k)

SelectBelow(s, n) == SelectSeq(s, LAMBDA x : x < n)

\* One turn of the while loop of process_structured.  w is the loop state
\* [i, di, stack, macros, active]: di indexes the next directive line in
\* directive_lines(fa).
\* A loop that reports only the first line of a multi-line directive.
after_directive_first_line(fa, w, d, st) ==
  [i |-> w.i + d.k + 1,
   di |-> w.di + 1,
   stack |-> st.stack,
   macros |-> st.macros,
   active |-> IF Top(st.stack)[1] /\ d.t \in {"define", "undef", "include"}
              THEN w.active \o <<w.i>>
              ELSE w.active]

\* The loop state after the directive d at line w.i has been handled and has
\* left the evaluator state st.
after_directive(fa, w, d, st) ==
  LET handled == d.t \in HandledTypes
      keep == Top(st.stack)[1] /\ (d.t \in {"define", "undef"} \/ ~handled)
  IN [i |-> w.i + d.k + 1,
      di |-> w.di + 1,
      stack |-> st.stack,
      macros |-> st.macros,
      active |-> IF keep
                 THEN w.active \o <<w.i>>
                        \o SelectBelow(continuation_range(w.i, 0, d.k), line_count(fa))
                 ELSE w.active]

walk_step(fa, w) ==
  LET dl == directive_lines(fa)
      next_directive_line == IF w.di <= Len(dl) THEN dl[w.di] ELSE -1
  IN IF w.i = next_directive_line
     THEN after_directive(fa, w, fa[w.i + 1],
            handle_directive_structured(fa[w.i + 1], [stack |-> w.stack, macros |-> w.macros]))
     ELSE [w EXCEPT !.i = w.i + 1,
                    !.active = IF Top(w.stack)[1] THEN w.active \o <<w.i>> ELSE w.active]

walk_init(macros) ==
  [i |-> 0, di |-> 1, stack |-> <<BottomFrame>>, macros |-> macros, active |-> <<>>]

\* The while loop: each turn's loop state is computed, then the loop goes on
\* from it.
RECURSIVE walk(_, _)
walk(fa, w) ==
  IF w.i < line_count(fa)
  THEN CHOOSE end \in {walk(fa, next) : next \in {walk_step(fa, w)}} : TRUE
  ELSE w

\* The uncached part of process_structured: the full walk of the file from
\* the preprocessor's macros.
full_walk(fa, macros) == walk(fa, walk_init(macros))

\* ------------------------------------------------------------------------
\* Macro fingerprint and the cache inside process_structured
\* ------------------------------------------------------------------------
\* compute_macro_hash hashes "k1=v1|k2=v2|..." with the keys sorted (the
\* empty string for the empty environment).  SHA-256 is taken as injective:
\* the model keeps the hashed string.
RECURSIVE macro_string(_, _)
macro_string(macros, i) ==
  IF i > Len(NameOrder) THEN <<>>
  ELSE IF NameOrder[i] \in DOMAIN macros
       THEN LET rest == macro_string(macros, i + 1)
                part == <<NameOrder[i], "=">> \o macros[NameOrder[i]]
            IN IF rest = <<>> THEN part ELSE part \o <<"|">> \o rest
       ELSE macro_string(macros, i + 1)

compute_macro_hash(macros) == macro_string(macros, 1)

\* The analyzers fill directive_by_line one directive type after the other,
\* the types in the order of their first occurrence in the file: this is the
\* order in which directive_by_line.items() yields the line numbers.
RECURSIVE group_by_type(_, _)
group_by_type(fa, dl) ==
  IF dl = <<>> THEN <<>>
  ELSE LET ty == fa[Head(dl) + 1].t
       IN SelectSeq(dl, LAMBDA x : fa[x + 1].t = ty)
            \o group_by_type(fa, SelectSeq(dl, LAMBDA x : fa[x + 1].t # ty))

directive_by_line_items(fa) == group_by_type(fa, directive_lines(fa))

InSeq(x, s) == \E i \in 1..Len(s) : s[i] = x

\* The cache-hit branch of process_structured: the active #define/#undef
\* directives are applied again, in the order of directive_by_line.items().
RECURSIVE reconstruct_macros(_, _, _, _)
reconstruct_macros(fa, items, active_lines, macros) ==
  IF items = <<>> THEN macros
  ELSE LET d == fa[Head(items) + 1]
           m == IF ~InSeq(Head(items), active_lines) THEN macros
                ELSE IF d.t = "define" /\ d.n # ""
                     THEN EnvSet(macros, d.n, IF d.v # <<>> THEN d.v ELSE <<"1">>)
                     ELSE IF d.t = "undef" /\ d.n # "" /\ d.n \in DOMAIN macros
                          THEN EnvDel(macros, d.n)
                          ELSE macros
       IN reconstruct_macros(fa, Tail(items), active_lines, m)

\* process_structured of a SimplePreprocessor whose macros are `macros`, with
\* the module's _preprocessor_cache being `cache`.  Yields the returned
\* active lines, the preprocessor's macros afterwards and the cache.
\* The cache-miss branch: the walk ended in w, its active lines are stored.
process_structured_miss(cache, cache_key, w) ==
  [active_lines |-> w.active,
   macros |-> w.macros,
   cache |-> [key \in (DOMAIN cache) \cup {cache_key} |->
                IF key = cache_key THEN w.active ELSE cache[key]]]

process_structured(fa, macros, cache) ==
  LET cache_key == <<content_hash(fa), compute_macro_hash(macros)>>
  IN IF cache_key \in DOMAIN cache
     THEN [active_lines |-> cache[cache_key],
           macros |-> reconstruct_macros(fa, directive_by_line_items(fa), cache[cache_key], macros),
           cache |-> cache]
     ELSE process_structured_miss(cache, cache_key, full_walk(fa, macros))

\* ------------------------------------------------------------------------
\* preprocessing_cache.py
\* ------------------------------------------------------------------------
Reserved == {"and", "or", "not", "true", "false", "defined"}

\* FileAnalysisResult.conditional_macros: the identifiers referenced by the
\* file's #ifdef, #ifndef, #if and #elif directives.
conditional_macros(fa) ==
  {fa[i].n : i \in {j \in 1..Len(fa) : fa[j].t \in {"ifdef", "ifndef"} /\ fa[j].n # ""}}
  \cup {t \in UNION {{fa[i].c[j] : j \in 1..Len(fa[i].c)} :
                       i \in {j \in 1..Len(fa) : fa[j].t \in {"if", "elif"}}} :
          IsIdent(t) /\ t \notin Reserved}

is_macro_invariant(fa, input_macros) ==
  IF conditional_macros(fa) = {} THEN TRUE
  ELSE ~\E m \in conditional_macros(fa) : m \in DOMAIN input_macros

make_macro_cache_key(macros) == {<<k, macros[k]>> : k \in DOMAIN macros}

\* file_result.includes / magic_flags / defines restricted to the active
\* lines, in file order.
RECURSIVE active_items(_, _, _, _)
active_items(fa, ty, active_lines, i) ==
  IF i >= Len(fa) THEN <<>>
  ELSE IF fa[i + 1].t = ty /\ InSeq(i, active_lines)
       THEN <<[line_num |-> i, name |-> fa[i + 1].n, value |-> fa[i + 1].v]>>
              \o active_items(fa, ty, active_lines, i + 1)
       ELSE active_items(fa, ty, active_lines, i + 1)

ProcessingResult(fa, active_lines, updated_macros) ==
  [active_lines |-> active_lines,
   active_includes |-> active_items(fa, "include", active_lines, 0),
   active_magic_flags |-> active_items(fa, "magic", active_lines, 0),
   active_defines |-> active_items(fa, "define", active_lines, 0),
   updated_macros |-> updated_macros]

\* evaluate(file, env): what a fresh evaluator without any cache returns.
result_of_walk(fa, w) == ProcessingResult(fa, w.active, w.macros)

evaluate(fa, env) == result_of_walk(fa, full_walk(fa, env))

\* ------------------------------------------------------------------------
\* State
\* ------------------------------------------------------------------------
VARIABLES
  invariant_cache,          \* _invariant_cache: content_hash -> ProcessingResult
  variant_cache,            \* _variant_cache: (content_hash, macro key) -> ProcessingResult
  cache_stats,              \* _cache_stats
  macro_states_by_content,  \* _macro_states_by_content: content_hash -> list of macro hashes
  preprocessor_cache,       \* _preprocessor_cache: (content_hash, macro_hash) -> active lines
  ncalls,                   \* number of calls made so far
  last,                     \* the last call: its arguments, what it returned, the
                            \* caller's environment object after it
  ev_fa,                    \* the file a single evaluation walks
  ev_env,                   \* the macros that evaluation started from
  ev_w,                     \* the state of its while loop
  chain_files,              \* the header chain being processed, in order
  chain_env0,               \* the environment the chain started from
  chain_env,                \* the environment propagated to the next call
  chain_pos,                \* the position of the next header of the chain
  chain_deps,               \* the headers found so far for the chain
  nchains,                  \* number of chains started so far
  project,                  \* the files on disk: name -> content
  hd_command_line_macros,      \* the macros of args.CPPFLAGS/CFLAGS/CXXFLAGS
  hd_defined_macros,           \* DirectHeaderDeps.defined_macros
  hd_results,                  \* the results set of _process_impl
  ancestor_paths,           \* DirectHeaderDeps.ancestor_paths
  tree,                     \* the nodes of the tree generatetree builds, each
                            \* the path of file names from the root to it
  call_stack,               \* the active calls of the traversal: the file, its
                            \* include list, the position of the for loop
  hd_mode,                  \* "idle", or the running call: "process" / "tree"
  hd_unit,                  \* the file that call was made for
  hd_attempt,               \* which run of _process_impl this is (1 or 2)
  hd_entry_macros,          \* hd_defined_macros when the call was made
  hd_evaluated,             \* what _create_include_list saw and produced for
                            \* each file (each node) of this traversal
  hd_order,                 \* the nodes of this traversal in evaluation order
  hd_returned,              \* what the last call returned, and which call it
                            \* came after
  nunits,                   \* number of top-level calls made so far
  verbose,                  \* args.verbose
  mf_filename,              \* the file readfile was called for
  mf_defined_macros,        \* DirectMagicFlags.defined_macros: a set of names
  macro_values,             \* DirectMagicFlags.macro_values
  headers,                  \* the headers of the file, in the order list() gives
  previous_macros,          \* readfile's local previous_macros
  iteration,                \* readfile's local iteration
  mf_text,                  \* readfile's local text
  mf_pc,                    \* "idle", or "loop" while readfile is at its loop
  mf_returned,              \* how the last readfile call ended
  mf_output,                \* what readfile printed
  nreads,                   \* number of readfile calls made so far
  xp_macros,                \* self.macros of the preprocessor that expands
  xp_input,                 \* the expression _recursive_expand_macros_sz was given
  xp_expr,                  \* its expr_sz
  xp_previous,              \* its previous_expr
  xp_iteration,             \* its iteration
  xp_result,                \* result of the running _expand_macros_sz pass
  xp_i,                     \* i of the running pass
  xp_pc,                    \* "idle", "loop", "scan" or "done"
  fp_dict,                  \* a macros dict: its (name, value) items in insertion order
  fp_log,                   \* the compute_macro_hash calls made: dict and result
  analyze_file_cache,       \* the content hashes analyze_file has memoized
  stale_memo,               \* history: the keys _preprocessor_cache held at the
                            \* last clear_cache
  fl_flags,                 \* the flags deduplicate_compiler_flags was given
  fl_i,                     \* its i
  fl_deduplicated,          \* its deduplicated
  fl_seen_flag_args,        \* its seen_flag_args, flag -> set of arguments
  fl_pc,                    \* "idle", "loop" or "done"
  pk_pending,               \* the packages of the PKG-CONFIG flag not yet queried
  pk_raw,                   \* history, what pkg-config --cflags printed for each package
  pk_flagsforfilename,      \* flagsforfilename of _handle_pkg_config
  pk_pc,                    \* "idle", "loop" or "done"
  sp_text,                  \* the text _parse got from readfile, file by file
  sp_files,                 \* the files that exist, as <<directory, name>>
  sp_k,                     \* the number of magic flags of the text handled so far
  sp_flagsforfilename,      \* flagsforfilename of _parse
  sp_pc,                    \* "idle", "loop", "returned" or "raised"
  fs_state,                 \* what the file system holds at each path (missing, unreadable, or its content)
  rg_is_loaded,             \* GlobalHashRegistry._is_loaded
  rg_hash_map,              \* GlobalHashRegistry._hash_map, path to content hash
  an_cache,                 \* MemoryCache._cache, (path, content hash) to analysis result
  an_last,                  \* what the last call of analyze was given and how it ended
  an_calls,                 \* number of analyze calls so far
  dk_files,                 \* the cache files of a DiskCache directory, (md5 of path, content hash) to bytes
  dk_written,               \* for each cache file that a put wrote and nothing touched since, the result put was given
  dk_last,                  \* the last DiskCache operation, its arguments and how it ended
  dk_ops,                   \* number of DiskCache operations so far
  mc_cache,                 \* MemoryCache._cache, key to result
  mc_access_order,          \* MemoryCache._access_order, keys from least to most recently used
  mc_max_entries,           \* MemoryCache._max_entries
  mc_used,                  \* for each key, the number of the operation that last used it
  mc_put_at,                \* for each key, the number of the operation that stored its entry
  mc_last,                  \* the last MemoryCache operation and what it did
  mc_ops,                   \* number of MemoryCache operations so far
  lk_pc,                    \* where each process stands in its cache operation
  lk_op,                    \* the operation each process runs, with its entry
  lk_lock_file,             \* MultiUserFileLock._lock_file of each process ("None" or "file")
  lk_handle_open,           \* whether the lock file handle of each process is open
  lk_flock,                 \* lock path -> who holds the flock on it
  lk_elapsed,               \* time.time() - start_time of each process, in ticks
  lk_files,                 \* cache path -> state of the file there
  lk_temp,                  \* the temporary file of each process
  lk_seen,                  \* what the last get of each process read
  lk_todo,                  \* the cache files a running clear still has to unlink
  lk_nops                   \* operations started

cacheVars == <<invariant_cache, variant_cache, cache_stats, macro_states_by_content,
               preprocessor_cache, ncalls, last>>

evalVars == <<ev_fa, ev_env, ev_w>>

chainVars == <<chain_files, chain_env0, chain_env, chain_pos, chain_deps, nchains>>

depsVars == <<project, hd_command_line_macros, hd_defined_macros, hd_results, ancestor_paths, tree,
              call_stack, hd_mode, hd_unit, hd_attempt, hd_entry_macros, hd_evaluated,
              hd_order, hd_returned, nunits>>

hunterVars == <<verbose, mf_filename, mf_defined_macros, macro_values, headers,
                previous_macros, iteration, mf_text, mf_pc, mf_returned, mf_output, nreads>>

expandVars == <<xp_macros, xp_input, xp_expr, xp_previous, xp_iteration, xp_result,
                xp_i, xp_pc>>

hashVars == <<fp_dict, fp_log>>

clearVars == <<analyze_file_cache, stale_memo>>

flagVars == <<fl_flags, fl_i, fl_deduplicated, fl_seen_flag_args, fl_pc>>

pkgVars == <<pk_pending, pk_raw, pk_flagsforfilename, pk_pc>>

sourceVars == <<sp_text, sp_files, sp_k, sp_flagsforfilename, sp_pc>>

analyzeVars == <<fs_state, rg_is_loaded, rg_hash_map, an_cache, an_last, an_calls>>

diskVars == <<dk_files, dk_written, dk_last, dk_ops>>

memVars == <<mc_cache, mc_access_order, mc_max_entries, mc_used, mc_put_at, mc_last, mc_ops>>

lockVars == <<lk_pc, lk_op, lk_lock_file, lk_handle_open, lk_flock, lk_elapsed, lk_files, lk_temp, lk_seen, lk_todo, lk_nops>>

vars == <<invariant_cache, variant_cache, cache_stats, macro_states_by_content,
          preprocessor_cache, ncalls, last, ev_fa, ev_env, ev_w,
          chain_files, chain_env0, chain_env, chain_pos, chain_deps, nchains,
          project, hd_command_line_macros, hd_defined_macros, hd_results, ancestor_paths, tree,
          call_stack, hd_mode, hd_unit, hd_attempt, hd_entry_macros, hd_evaluated,
          hd_order, hd_returned, nunits,
          verbose, mf_filename, mf_defined_macros, macro_values, headers,
          previous_macros, iteration, mf_text, mf_pc, mf_returned, mf_output, nreads,
          xp_macros, xp_input, xp_expr, xp_previous, xp_iteration, xp_result, xp_i, xp_pc,
          fp_dict, fp_log, analyze_file_cache, stale_memo,
          fl_flags, fl_i, fl_deduplicated, fl_seen_flag_args, fl_pc,
          pk_pending, pk_raw, pk_flagsforfilename, pk_pc,
          sp_text, sp_files, sp_k, sp_flagsforfilename, sp_pc,
          fs_state, rg_is_loaded, rg_hash_map, an_cache, an_last, an_calls,
          dk_files, dk_written, dk_last, dk_ops,
          mc_cache, mc_access_order, mc_max_entries, mc_used, mc_put_at, mc_last, mc_ops,
          lk_pc, lk_op, lk_lock_file, lk_handle_open, lk_flock, lk_elapsed, lk_files, lk_temp, lk_seen, lk_todo, lk_nops>>

EmptyMap == [x \in {} |-> {}]

MapPut(m, key, val) == [x \in (DOMAIN m) \cup {key} |-> IF x = key THEN val ELSE m[x]]

ZeroStats ==
  [hits |-> 0, misses |-> 0, total_calls |-> 0, invariant_hits |-> 0,
   variant_hits |-> 0, invariant_misses |-> 0, variant_misses |-> 0]

Bump(stats, fields) == [f \in DOMAIN stats |-> IF f \in fields THEN stats[f] + 1 ELSE stats[f]]

NoCall == [op |-> "none"]

CacheInit ==
  /\ invariant_cache = EmptyMap
  /\ variant_cache = EmptyMap
  /\ cache_stats = ZeroStats
  /\ macro_states_by_content = EmptyMap
  /\ preprocessor_cache = EmptyMap
  /\ analyze_file_cache = {}
  /\ stale_memo = {}
  /\ ncalls = 0
  /\ last = NoCall

\* ------------------------------------------------------------------------
\* The files and environments the cache is exercised with
\* ------------------------------------------------------------------------
\* widget.hpp of the spec's scenario 4: only a #define and an #include.
WidgetFile == <<Define("A", <<"1">>), Include("x.hpp")>>
\* a header whose include depends on A
ConditionalFile == <<Ifdef("A"), Include("on.hpp"), Endif>>
\* #undef / #define / #undef of one name
UndefFile == <<Undef("A"), Define("A", <<>>), Undef("A")>>
\* a condition that reaches B through the value of A
ExpandFile == <<Define("A", <<"B">>), If(<<"A">>), Include("on.hpp")>>

CacheFiles == {WidgetFile, ConditionalFile, UndefFile, ExpandFile}

MacroValues == {<<"1">>}

Envs == UNION {[S -> MacroValues] : S \in SUBSET MacroNames}

\* ------------------------------------------------------------------------
\* Objects: which dict a SimplePreprocessor works on
\* ------------------------------------------------------------------------
\* "caller" is the dict object the caller passed in, "copy" any new dict.
dict_copy(obj) == "copy"

\* A constructor that keeps the caller's dict instead of copying it.
SimplePreprocessor_init_shared(defined_macros) == defined_macros

\* SimplePreprocessor.__init__: self.macros = defined_macros.copy()
SimplePreprocessor_init(defined_macros) == dict_copy(defined_macros)

\* The content of the caller's dict after a preprocessor whose self.macros is
\* the object self_macros has run and left final_macros in it.
caller_dict_after(self_macros, input_macros, final_macros) ==
  IF self_macros = "caller" THEN final_macros ELSE input_macros

\* ------------------------------------------------------------------------
\* Operations
\* ------------------------------------------------------------------------
\* analyze_file(content_hash) is memoized: the hash joins the memo.
analyze_file(memo, h) == memo \cup {h}

\* SimplePreprocessor(env).process_structured(fa), called directly on the
\* file_result that analyze_file gave the caller.
ProcessStructured(fa, env) ==
  /\ ncalls < MaxCalls
  /\ \E p \in {process_structured(fa, env, preprocessor_cache)} :
       /\ preprocessor_cache' = p.cache
       /\ last' = [op |-> "process_structured", fa |-> fa, input |-> env,
                   caller_after |-> caller_dict_after(SimplePreprocessor_init("caller"),
                                                      env, p.macros),
                   result |-> [active_lines |-> p.active_lines, macros |-> p.macros],
                   how |-> IF p.cache = preprocessor_cache THEN "hit" ELSE "miss"]
  /\ ncalls' = ncalls + 1
  /\ analyze_file_cache' = analyze_file(analyze_file_cache, content_hash(fa))
  /\ UNCHANGED <<invariant_cache, variant_cache, cache_stats, macro_states_by_content>>
  /\ UNCHANGED stale_memo
  /\ UNCHANGED <<evalVars, chainVars, depsVars, hunterVars, expandVars, hashVars, flagVars, pkgVars, sourceVars, analyzeVars, diskVars, memVars, lockVars>>

\* The statistics after one call.
count_call(stats, invariant, hit) ==
  Bump(stats,
       {"total_calls"}
         \cup (IF hit THEN {"hits"} ELSE {"misses"})
         \cup (IF invariant
               THEN (IF hit THEN {"invariant_hits"} ELSE {"invariant_misses"})
               ELSE (IF hit THEN {"variant_hits"} ELSE {"variant_misses"})))

\* The variant path records the macro state it was called with.
track_macro_state(states, h, invariant, input_macros) ==
  IF invariant THEN states
  ELSE MapPut(states, h,
              Append(IF h \in DOMAIN states THEN states[h] ELSE <<>>,
                     compute_macro_hash(input_macros)))

\* get_or_compute_preprocessing(file_result, input_macros): a hit returns the
\* stored ProcessingResult object as it is; a miss runs a SimplePreprocessor
\* on a copy of input_macros, stores the result and returns it.
get_or_compute_preprocessing(fa, input_macros) ==
  /\ \E h \in {content_hash(fa)},
        invariant \in {is_macro_invariant(fa, input_macros)},
        cache_key \in {<<content_hash(fa), make_macro_cache_key(input_macros)>>} :
       /\ cache_stats' =
            count_call(cache_stats, invariant,
                       IF invariant THEN h \in DOMAIN invariant_cache
                                    ELSE cache_key \in DOMAIN variant_cache)
       /\ macro_states_by_content' =
            track_macro_state(macro_states_by_content, h, invariant, input_macros)
       /\ IF invariant /\ h \in DOMAIN invariant_cache
          THEN /\ last' = [op |-> "get_or_compute", fa |-> fa, input |-> input_macros,
                           caller_after |-> input_macros,
                           result |-> invariant_cache[h],
                           how |-> "invariant_hit"]
               /\ UNCHANGED <<invariant_cache, variant_cache, preprocessor_cache>>
          ELSE IF ~invariant /\ cache_key \in DOMAIN variant_cache
          THEN /\ last' = [op |-> "get_or_compute", fa |-> fa, input |-> input_macros,
                           caller_after |-> input_macros,
                           result |-> variant_cache[cache_key],
                           how |-> "variant_hit"]
               /\ UNCHANGED <<invariant_cache, variant_cache, preprocessor_cache>>
          ELSE \E p \in {process_structured(fa, input_macros, preprocessor_cache)} :
                 \E result \in {ProcessingResult(fa, p.active_lines, p.macros)} :
                   /\ invariant_cache' =
                        IF invariant THEN MapPut(invariant_cache, h, result)
                        ELSE invariant_cache
                   /\ variant_cache' =
                        IF invariant THEN variant_cache
                        ELSE MapPut(variant_cache, cache_key, result)
                   /\ preprocessor_cache' = p.cache
                   /\ last' = [op |-> "get_or_compute", fa |-> fa, input |-> input_macros,
                               caller_after |->
                                 caller_dict_after(SimplePreprocessor_init(dict_copy("caller")),
                                                   input_macros, p.macros),
                               result |-> result,
                               how |-> "miss",
                               memo |-> p.cache = preprocessor_cache]

\* One call of get_or_compute_preprocessing by a client of the cache.
GetOrCompute(fa, input_macros) ==
  /\ ncalls < MaxCalls
  /\ get_or_compute_preprocessing(fa, input_macros)
  /\ ncalls' = ncalls + 1
  /\ analyze_file_cache' = analyze_file(analyze_file_cache, content_hash(fa))
  /\ UNCHANGED stale_memo
  /\ UNCHANGED <<evalVars, chainVars, depsVars, hunterVars, expandVars, hashVars, flagVars, pkgVars, sourceVars, analyzeVars, diskVars, memVars, lockVars>>

NoEval ==
  /\ ev_fa = <<>>
  /\ ev_env = EmptyEnv
  /\ ev_w = walk_init(EmptyEnv)

NoChain ==
  /\ chain_files = <<>>
  /\ chain_env0 = EmptyEnv
  /\ chain_env = EmptyEnv
  /\ chain_pos = 1
  /\ chain_deps = {}
  /\ nchains = 0

NoReturn == [mode |-> "none", unit |-> "", result |-> {}, after |-> <<>>]

\* A DirectHeaderDeps engine after construction: no call made.
EngineInit ==
  /\ hd_defined_macros = hd_command_line_macros
  /\ hd_results = {}
  /\ ancestor_paths = <<>>
  /\ tree = {}
  /\ call_stack = <<>>
  /\ hd_mode = "idle"
  /\ hd_unit = ""
  /\ hd_attempt = 1
  /\ hd_entry_macros = hd_command_line_macros
  /\ hd_evaluated = EmptyMap
  /\ hd_order = <<>>
  /\ hd_returned = NoReturn
  /\ nunits = 0

NoDeps ==
  /\ project = EmptyMap
  /\ hd_command_line_macros = EmptyEnv
  /\ EngineInit

\* The text local of readfile before its first assignment.
Unbound == [bound |-> FALSE, files |-> <<>>]

\* A DirectMagicFlags object after construction: no call made.
MagicFlagsInit ==
  /\ mf_filename = ""
  /\ mf_defined_macros = {}
  /\ macro_values = EmptyEnv
  /\ headers = <<>>
  /\ previous_macros = {}
  /\ iteration = 0
  /\ mf_text = Unbound
  /\ mf_pc = "idle"
  /\ mf_returned = [kind |-> "none", text |-> <<>>]
  /\ mf_output = <<>>
  /\ nreads = 0

NoHunter ==
  /\ verbose = 0
  /\ MagicFlagsInit

\* No expansion is under way.
NoExpand ==
  /\ xp_macros = EmptyEnv
  /\ xp_input = <<>>
  /\ xp_expr = <<>>
  /\ xp_previous = <<>>
  /\ xp_iteration = 0
  /\ xp_result = <<>>
  /\ xp_i = 0
  /\ xp_pc = "idle"

\* No fingerprint has been computed.
NoHash ==
  /\ fp_dict = <<>>
  /\ fp_log = <<>>

\* No flag list is being deduplicated.
NoFlags ==
  /\ fl_flags = <<>>
  /\ fl_i = 0
  /\ fl_deduplicated = <<>>
  /\ fl_seen_flag_args = EmptyMap
  /\ fl_pc = "idle"

\* No PKG-CONFIG magic flag is being handled.
NoPkg ==
  /\ pk_pending = 0
  /\ pk_raw = <<>>
  /\ pk_flagsforfilename = EmptyMap
  /\ pk_pc = "idle"

\* No text is being parsed for magic flags.
NoSource ==
  /\ sp_text = <<>>
  /\ sp_files = {}
  /\ sp_k = 0
  /\ sp_flagsforfilename = EmptyMap
  /\ sp_pc = "idle"

\* No file is being analyzed.
NoAnalyze ==
  /\ fs_state = EmptyMap
  /\ rg_is_loaded = FALSE
  /\ rg_hash_map = EmptyMap
  /\ an_cache = EmptyMap
  /\ an_last = [op |-> "none"]
  /\ an_calls = 0

\* No disk cache is in use.
NoDisk ==
  /\ dk_files = EmptyMap
  /\ dk_written = EmptyMap
  /\ dk_last = [op |-> "none"]
  /\ dk_ops = 0

\* No memory cache is in use.
NoMem ==
  /\ mc_cache = EmptyMap
  /\ mc_access_order = <<>>
  /\ mc_max_entries = 1
  /\ mc_used = EmptyMap
  /\ mc_put_at = EmptyMap
  /\ mc_last = [op |-> "none"]
  /\ mc_ops = 0

\* The file locks are not in use.
NoLock ==
  /\ lk_pc = EmptyMap
  /\ lk_op = EmptyMap
  /\ lk_lock_file = EmptyMap
  /\ lk_handle_open = EmptyMap
  /\ lk_flock = EmptyMap
  /\ lk_elapsed = EmptyMap
  /\ lk_files = EmptyMap
  /\ lk_temp = EmptyMap
  /\ lk_seen = EmptyMap
  /\ lk_todo = EmptyMap
  /\ lk_nops = 0

Init == CacheInit /\ NoLock /\ NoMem /\ NoDisk /\ NoAnalyze /\ NoSource /\ NoPkg /\ NoFlags /\ NoEval /\ NoChain /\ NoDeps /\ NoHunter /\ NoExpand /\ NoHash

\* A clear_cache that empties the tiers and leaves the counters.
clear_cache_tiers_only ==
  /\ invariant_cache' = EmptyMap
  /\ variant_cache' = EmptyMap
  /\ macro_states_by_content' = EmptyMap
  /\ analyze_file_cache' = {}
  /\ stale_memo' = DOMAIN preprocessor_cache
  /\ UNCHANGED <<cache_stats, preprocessor_cache, ncalls, last>>
  /\ UNCHANGED <<evalVars, chainVars, depsVars, hunterVars, expandVars, hashVars, flagVars, pkgVars, sourceVars, analyzeVars, diskVars, memVars, lockVars>>

\* clear_cache(): both tiers, the tracked macro states and the counters
\* are reset and analyze_file's memo is cleared; the module-level
\* _preprocessor_cache of simple_preprocessor is not touched.
ClearCache ==
  /\ invariant_cache' = EmptyMap
  /\ variant_cache' = EmptyMap
  /\ macro_states_by_content' = EmptyMap
  /\ cache_stats' = ZeroStats
  /\ analyze_file_cache' = {}
  /\ stale_memo' = DOMAIN preprocessor_cache
  /\ UNCHANGED <<preprocessor_cache, ncalls, last>>
  /\ UNCHANGED <<evalVars, chainVars, depsVars, hunterVars, expandVars, hashVars, flagVars, pkgVars, sourceVars, analyzeVars, diskVars, memVars, lockVars>>

\* What a caller's assignment or deletion of one name does to a dict.
caller_edit(env, n) == IF n \in DOMAIN env THEN EnvDel(env, n) ELSE EnvSet(env, n, <<"1">>)

\* The caller of the last get_or_compute_preprocessing call changes a name in
\* result.updated_macros. The result it holds is the object the call
\* returned: the ProcessingResult object stored in the tier, on a hit
\* ("return _invariant_cache[content_hash]") and on a miss alike (the result
\* is stored and then returned), so the stored entry changes with it. The
\* first change of a returned result is modelled.
CallerModifies(n) ==
  /\ last.op = "get_or_compute"
  /\ \E h \in {content_hash(last.fa)},
        invariant \in {is_macro_invariant(last.fa, last.input)},
        cache_key \in {<<content_hash(last.fa), make_macro_cache_key(last.input)>>} :
       /\ IF invariant THEN h \in DOMAIN invariant_cache ELSE cache_key \in DOMAIN variant_cache
       /\ last.result = IF invariant THEN invariant_cache[h] ELSE variant_cache[cache_key]
       /\ invariant_cache' =
            IF invariant
            THEN [invariant_cache EXCEPT ![h].updated_macros = caller_edit(@, n)]
            ELSE invariant_cache
       /\ variant_cache' =
            IF invariant THEN variant_cache
            ELSE [variant_cache EXCEPT ![cache_key].updated_macros = caller_edit(@, n)]
  /\ UNCHANGED <<cache_stats, macro_states_by_content, preprocessor_cache, ncalls, last>>
  /\ UNCHANGED clearVars
  /\ UNCHANGED <<evalVars, chainVars, depsVars, hunterVars, expandVars, hashVars, flagVars, pkgVars, sourceVars, analyzeVars, diskVars, memVars, lockVars>>

Next ==
  \/ \E fa \in CacheFiles, env \in Envs : GetOrCompute(fa, env)
  \/ \E fa \in CacheFiles, env \in Envs : ProcessStructured(fa, env)
  \/ ClearCache
  \/ \E n \in MacroNames : CallerModifies(n)

Spec == Init /\ [][Next]_vars

\* ------------------------------------------------------------------------
\* Claims about the preprocessing cache
\* ------------------------------------------------------------------------
\* C1: every get_or_compute call returns a ProcessingResult equal in every
\* field to what a fresh, uncached evaluate(file, env) returns for the call's
\* own file and environment.
C1_CacheEqualsEvaluate ==
  last.op = "get_or_compute" => last.result = evaluate(last.fa, last.input)

\* The #define / #undef directives of the file on the given active lines,
\* applied to env in source order.
RECURSIVE apply_in_source_order(_, _, _, _)
apply_in_source_order(fa, i, active_lines, env) ==
  IF i >= Len(fa) THEN env
  ELSE LET d == fa[i + 1]
           e == IF ~InSeq(i, active_lines) THEN env
                ELSE IF d.t = "define" /\ d.n # ""
                     THEN EnvSet(env, d.n, IF d.v # <<>> THEN d.v ELSE <<"1">>)
                     ELSE IF d.t = "undef" /\ d.n # "" THEN EnvDel(env, d.n)
                     ELSE env
       IN apply_in_source_order(fa, i + 1, active_lines, e)

ChangedNames(fa) == {fa[i].n : i \in {j \in 1..Len(fa) : fa[j].t \in {"define", "undef"}}}

\* C2: the updated_macros a get_or_compute call returns is the call's input
\* environment after applying, in source order, every active #define and
\* #undef of the file; a macro of the input that the file neither defines
\* nor undefines is present with its input value.
C2_UpdatedMacrosFromInput ==
  last.op = "get_or_compute" =>
    /\ last.result.updated_macros =
         apply_in_source_order(last.fa, 0, last.result.active_lines, last.input)
    /\ \A n \in DOMAIN last.input :
         n \notin ChangedNames(last.fa) =>
           /\ n \in DOMAIN last.result.updated_macros
           /\ last.result.updated_macros[n] = last.input[n]

\* C5: evaluate and get_or_compute never modify the macro environment
\* object supplied by the caller: after the call it holds what it held
\* before, on a hit as on a miss.
C5_CallerEnvUnchanged ==
  last.op # "none" => last.caller_after = last.input

\* Both kinds of call have run on a file whose directives changed the macros.
C5_Witness ==
  /\ last.op = "get_or_compute"
  /\ last.how = "miss"
  /\ last.result.updated_macros # last.input
  /\ \E key \in DOMAIN preprocessor_cache : key[1] # content_hash(last.fa)

\* ------------------------------------------------------------------------
\* SpecEval: one evaluation of one file, line by line
\* ------------------------------------------------------------------------
EvalAlphabet ==
  {TextLine, Define("A", <<>>), Define("A", <<"B">>), Undef("A"),
   Ifdef("A"), Ifndef("A"), If(<<"A">>), Elif(<<"B">>), Else, Endif,
   Include("x.hpp"), Ifdef(""),
   Line("define", "B", <<"1">>, <<>>, 1), Line("ifdef", "A", <<>>, <<>>, 1)}

\* A directive's continuation lines lie in the file, and a line inside the
\* continuation of a directive ends where that directive ends.
continuation_consistent(fa) ==
  \A i \in 1..Len(fa) :
    /\ i + fa[i].k <= Len(fa)
    /\ \A j \in 1..fa[i].k : fa[i + j].k = fa[i].k - j

FileUniverse ==
  {fa \in UNION {[1..n -> EvalAlphabet] : n \in 1..MaxLines} : continuation_consistent(fa)}

\* Longer files with nested conditionals.
NestedFiles ==
  {<<Ifdef("A"), TextLine, Ifdef("B"), TextLine, Else, TextLine, Endif, Endif>>,
   <<Ifdef("A"), TextLine, Ifdef(""), Endif, Else, TextLine>>,
   <<Ifdef("A"), TextLine, Ifdef(""), Else, TextLine>>,
   <<Ifndef("A"), If(<<"B">>), TextLine, Elif(<<"A">>), TextLine, Endif, Else, TextLine, Endif>>,
   <<If(<<"1", "==">>), TextLine, Elif(<<"!">>), TextLine, Else, TextLine, Endif>>,
   <<If(<<"!", "A">>), TextLine, Elif(<<"!", "B">>), TextLine, Endif>>}

EvalInit ==
  /\ CacheInit /\ NoLock /\ NoMem /\ NoDisk /\ NoAnalyze /\ NoSource /\ NoPkg /\ NoFlags
  /\ NoChain
  /\ NoDeps
  /\ NoHunter
  /\ NoExpand
  /\ NoHash
  /\ ev_fa \in FileUniverse \cup NestedFiles
  /\ ev_env \in Envs
  /\ ev_w = walk_init(ev_env)

\* One turn of the loop of process_structured.
EvalStep ==
  /\ ev_w.i < line_count(ev_fa)
  /\ ev_w' = walk_step(ev_fa, ev_w)
  /\ UNCHANGED <<ev_fa, ev_env>>
  /\ UNCHANGED <<cacheVars, clearVars, chainVars, depsVars, hunterVars, expandVars, hashVars, flagVars, pkgVars, sourceVars, analyzeVars, diskVars, memVars, lockVars>>

EvalDone == ev_fa # <<>> /\ ev_w.i >= line_count(ev_fa)

SpecEval == EvalInit /\ [][EvalStep]_vars

\* The environments that differ from env only in keys outside the set names.
DifferOutside(env, names) ==
  {e \in Envs : \A n \in names : (n \in DOMAIN e) = (n \in DOMAIN env)
                                   /\ (n \in DOMAIN env => e[n] = env[n])}

\* C4: when none of the file's conditional_macros is a key of env, the file
\* has the same active_lines under env and under every environment that
\* differs from env only in keys outside conditional_macros.
C4_InvarianceSound ==
  (EvalDone /\ conditional_macros(ev_fa) \cap DOMAIN ev_env = {}) =>
    \A e \in DifferOutside(ev_env, conditional_macros(ev_fa)) :
      evaluate(ev_fa, e).active_lines = ev_w.active

\* ------------------------------------------------------------------------
\* SpecChain: header chains processed through the cache, the macro state
\* propagated from each call to the next
\* ------------------------------------------------------------------------
MaxChains == 2

\* a header whose include depends on B
GuardedFile == <<Ifdef("B"), Include("b.hpp"), Endif>>

ChainFiles == {WidgetFile, GuardedFile, ConditionalFile}

\* The chains A -> B -> C over three distinct headers.
Chains == {c \in [1..3 -> ChainFiles] : \A i, j \in 1..3 : i # j => c[i] # c[j]}

include_names(result) ==
  {result.active_includes[i].name : i \in 1..Len(result.active_includes)}

ChainDone == chain_pos > Len(chain_files)

\* A client starts on a chain with the environment env0.
ChainStart(files, env0) ==
  /\ ChainDone
  /\ nchains < MaxChains
  /\ chain_files' = files
  /\ chain_env0' = env0
  /\ chain_env' = env0
  /\ chain_pos' = 1
  /\ chain_deps' = {}
  /\ nchains' = nchains + 1
  /\ UNCHANGED <<cacheVars, clearVars, evalVars, depsVars, hunterVars, expandVars, hashVars, flagVars, pkgVars, sourceVars, analyzeVars, diskVars, memVars, lockVars>>

\* result = get_or_compute_preprocessing(file, env); the next call gets
\* result.updated_macros.
ChainStep ==
  /\ ~ChainDone
  /\ get_or_compute_preprocessing(chain_files[chain_pos], chain_env)
  /\ chain_env' = last'.result.updated_macros
  /\ chain_deps' = chain_deps \cup include_names(last'.result)
  /\ chain_pos' = chain_pos + 1
  /\ UNCHANGED <<chain_files, chain_env0, nchains, ncalls, clearVars>>
  /\ UNCHANGED <<evalVars, depsVars, hunterVars, expandVars, hashVars, flagVars, pkgVars, sourceVars, analyzeVars, diskVars, memVars, lockVars>>

ChainNext ==
  \/ \E files \in Chains, env0 \in Envs : ChainStart(files, env0)
  \/ ChainStep

SpecChain == Init /\ [][ChainNext]_vars

\* The headers of a chain processed from empty caches: every call computes.
RECURSIVE fresh_chain_deps(_, _)
fresh_chain_deps(files, env) ==
  IF files = <<>> THEN {}
  ELSE include_names(evaluate(Head(files), env))
         \cup fresh_chain_deps(Tail(files), evaluate(Head(files), env).updated_macros)

\* C3: a chain processed by passing each call's updated_macros to the next
\* call ends with the dependency set it has when processed from empty
\* caches, whichever of its calls were cache hits.
C3_ChainDepsIndependentOfCache ==
  (ChainDone /\ chain_files # <<>>) =>
    chain_deps = fresh_chain_deps(chain_files, chain_env0)

\* ------------------------------------------------------------------------
\* headerdeps.py: DirectHeaderDeps
\* ------------------------------------------------------------------------
\* A project is a function from file names to file contents; every file lives
\* in one directory.  NoPath is the None that _find_include returns.
NoPath == ""

find_include(fs, include) == IF include \in DOMAIN fs THEN include ELSE NoPath

\* What process(text) leaves from the end state w of the evaluator's walk:
\* the active lines as the processed text, and the preprocessor's macros.
processed(w) == [text |-> w.active, macros |-> w.macros]

\* SimplePreprocessor(defined_macros).process(text, directive_positions)
process(fa, defined_macros) == processed(full_walk(fa, defined_macros))

\* include_line.strip() in processed_text: the text of line i occurs in the
\* processed text, which holds for every line with the same text.
survives(fa, i, text) ==
  \E j \in 1..Len(text) : fa[text[j] + 1].t = fa[i + 1].t /\ fa[text[j] + 1].n = fa[i + 1].n

\* The names of the include lines from line i on that survived, in file order.
RECURSIVE surviving_includes(_, _, _)
surviving_includes(fa, i, text) ==
  IF i >= Len(fa) THEN <<>>
  ELSE IF fa[i + 1].t = "include" /\ survives(fa, i, text)
       THEN <<fa[i + 1].n>> \o surviving_includes(fa, i + 1, text)
       ELSE surviving_includes(fa, i + 1, text)

\* What _create_include_list leaves once the file has been processed to p:
\* the include list, the processed text, and self.defined_macros replaced by
\* the preprocessor's macros.
include_list(fa, p) ==
  [includes |-> surviving_includes(fa, 0, p.text),
   text |-> p.text,
   defined_macros |-> p.macros]

create_include_list(fa, defined_macros) == include_list(fa, process(fa, defined_macros))

\* An engine that keeps the macros its previous analysis left.
keep_macros(command_line_macros, defined_macros) == defined_macros

\* _initialize_includes_and_macros: self.defined_macros becomes the macros of
\* the command line, whatever it held.
initialize_includes_and_macros(command_line_macros, defined_macros) == command_line_macros

\* _process_impl_recursive as the function it computes on
\* st = [results, defined_macros].
RECURSIVE process_impl_recursive(_, _, _)
RECURSIVE follow_includes(_, _, _)
entered(fs, il, results) ==
  follow_includes(fs, il.includes, [results |-> results, defined_macros |-> il.defined_macros])

process_impl_recursive(fs, realpath, st) ==
  entered(fs, create_include_list(fs[realpath], st.defined_macros),
          st.results \cup {realpath})

follow_includes(fs, includes, st) ==
  IF includes = <<>> THEN st
  ELSE follow_includes(fs, Tail(includes),
         IF find_include(fs, Head(includes)) # NoPath
            /\ find_include(fs, Head(includes)) \notin st.results
         THEN process_impl_recursive(fs, find_include(fs, Head(includes)), st)
         ELSE st)

\* The results set and self.defined_macros at the end of _process_impl on an
\* engine whose self.defined_macros is defined_macros.
process_impl_state(fs, realpath, command_line_macros, defined_macros) ==
  process_impl_recursive(fs, realpath,
    [results |-> {},
     defined_macros |-> initialize_includes_and_macros(command_line_macros, defined_macros)])

\* _process_impl: results.discard(realpath); return results
process_impl(fs, realpath, command_line_macros, defined_macros) ==
  process_impl_state(fs, realpath, command_line_macros, defined_macros).results \ {realpath}

\* HeaderDepsBase.process: an empty result makes it run _process_impl again.
headerdeps_process(fs, filename, command_line_macros, defined_macros) ==
  IF process_impl(fs, filename, command_line_macros, defined_macros) = {}
  THEN process_impl(fs, filename, command_line_macros, defined_macros)
  ELSE process_impl(fs, filename, command_line_macros, defined_macros)

\* ------------------------------------------------------------------------
\* SpecDeps: one DirectHeaderDeps engine, its traversals call by call
\* ------------------------------------------------------------------------
MaxUnits == 2

\* More nested calls than a traversal of the project's files can make.
MaxDepth == 7

Units == {"u1.cpp", "u2.cpp"}

FileNames == {"u1.cpp", "u2.cpp", "a.hpp", "b.hpp", "c.hpp", "d.hpp"}

\* The contents each file of a project can have.
Contents(f) ==
  CASE f = "u1.cpp" -> {<<Include("a.hpp")>>,
                        <<Define("A", <<>>), Include("a.hpp"), Include("b.hpp")>>,
                        <<TextLine>>}
    [] f = "u2.cpp" -> {<<Include("a.hpp")>>,
                        <<Include("b.hpp"), Include("missing.hpp")>>}
    [] f = "a.hpp"  -> {<<TextLine>>,
                        <<Define("A", <<>>), Include("b.hpp")>>,
                        <<Ifdef("A"), Include("b.hpp"), Endif>>,
                        <<Include("a.hpp")>>,
                        <<Undef("A")>>}
    [] f = "b.hpp"  -> {<<TextLine>>,
                        <<Include("a.hpp")>>,
                        <<Undef("A"), Include("c.hpp")>>,
                        <<Ifndef("A"), Include("c.hpp"), Endif>>,
                        <<Include("c.hpp"), Include("a.hpp")>>}
    [] f = "c.hpp"  -> {<<TextLine>>,
                        <<Include("a.hpp")>>,
                        <<Ifndef("A"), Include("d.hpp"), Endif>>}
    [] OTHER        -> {<<TextLine>>}

Project(u1, u2, a, b, c) ==
  [f \in FileNames |->
     CASE f = "u1.cpp" -> u1
       [] f = "u2.cpp" -> u2
       [] f = "a.hpp"  -> a
       [] f = "b.hpp"  -> b
       [] f = "c.hpp"  -> c
       [] OTHER        -> <<TextLine>>]

Projects ==
  {Project(u1, u2, a, b, c) :
     u1 \in Contents("u1.cpp"), u2 \in Contents("u2.cpp"),
     a \in Contents("a.hpp"), b \in Contents("b.hpp"), c \in Contents("c.hpp")}

CommandLines == {EmptyEnv, EnvSet(EmptyEnv, "A", <<"1">>)}

DepsInit ==
  /\ CacheInit /\ NoLock /\ NoMem /\ NoDisk /\ NoAnalyze /\ NoSource /\ NoPkg /\ NoFlags /\ NoEval /\ NoChain /\ NoHunter /\ NoExpand /\ NoHash
  /\ project \in Projects
  /\ hd_command_line_macros \in CommandLines
  /\ EngineInit

\* The call for a file begins: _create_include_list evaluates it from the
\* macros `before`, which replaces self.defined_macros; the for loop over the
\* include list starts on top of `stack`.  The evaluation is recorded under
\* `node`: <<file>> for process(), the path from the root for generatetree().
Enter(realpath, node, before, stack, evaluated, order) ==
  \E il \in {create_include_list(project[realpath], before)} :
    /\ call_stack' = Append(stack, [path |-> realpath, includes |-> il.includes, idx |-> 1])
    /\ hd_defined_macros' = il.defined_macros
    /\ hd_evaluated' = MapPut(evaluated, node,
                              [before |-> before, text |-> il.text, includes |-> il.includes])
    /\ hd_order' = Append(order, node)

\* The include the for loop of the topmost call is at, resolved.
trialpath == find_include(project, Top(call_stack).includes[Top(call_stack).idx])

InLoop(mode) ==
  /\ hd_mode = mode
  /\ call_stack # <<>>
  /\ Top(call_stack).idx <= Len(Top(call_stack).includes)

LoopDone(mode) ==
  /\ hd_mode = mode
  /\ call_stack # <<>>
  /\ Top(call_stack).idx > Len(Top(call_stack).includes)

\* The caller's loop moves on to its next include.
advance(stack) == [stack EXCEPT ![Len(stack)].idx = @ + 1]

\* process(filename): _process_impl resets the macros and calls
\* _process_impl_recursive for the file.
Process(filename) ==
  /\ hd_mode = "idle"
  /\ nunits < MaxUnits
  /\ hd_mode' = "process"
  /\ hd_unit' = filename
  /\ hd_attempt' = 1
  /\ hd_entry_macros' = hd_defined_macros
  /\ hd_results' = {filename}
  /\ Enter(filename, <<filename>>,
           initialize_includes_and_macros(hd_command_line_macros, hd_defined_macros),
           <<>>, EmptyMap, <<>>)
  /\ nunits' = nunits + 1
  /\ UNCHANGED <<project, hd_command_line_macros, ancestor_paths, tree, hd_returned>>
  /\ UNCHANGED <<cacheVars, clearVars, evalVars, chainVars, hunterVars, expandVars, hashVars, flagVars, pkgVars, sourceVars, analyzeVars, diskVars, memVars, lockVars>>

\* A traversal that takes every file for new.
never_seen(path, seen) == FALSE

\* trialpath in results
already_seen(path, seen) == path \in seen

\* The for loop of _process_impl_recursive follows an include that resolves
\* to a file not in results: the file is added and its call begins.
ProcRecurse ==
  /\ InLoop("process")
  /\ trialpath # NoPath
  /\ ~already_seen(trialpath, hd_results)
  /\ Len(call_stack) < MaxDepth
  /\ hd_results' = hd_results \cup {trialpath}
  /\ Enter(trialpath, <<trialpath>>, hd_defined_macros, advance(call_stack),
           hd_evaluated, hd_order)
  /\ UNCHANGED <<project, hd_command_line_macros, ancestor_paths, tree, hd_mode, hd_unit,
                 hd_attempt, hd_entry_macros, hd_returned, nunits>>
  /\ UNCHANGED <<cacheVars, clearVars, evalVars, chainVars, hunterVars, expandVars, hashVars, flagVars, pkgVars, sourceVars, analyzeVars, diskVars, memVars, lockVars>>

\* The include does not resolve, or resolves to a file already in results.
ProcSkip ==
  /\ InLoop("process")
  /\ trialpath = NoPath \/ already_seen(trialpath, hd_results)
  /\ call_stack' = advance(call_stack)
  /\ UNCHANGED <<project, hd_command_line_macros, hd_defined_macros, hd_results,
                 ancestor_paths, tree, hd_mode, hd_unit, hd_attempt, hd_entry_macros,
                 hd_evaluated, hd_order, hd_returned, nunits>>
  /\ UNCHANGED <<cacheVars, clearVars, evalVars, chainVars, hunterVars, expandVars, hashVars, flagVars, pkgVars, sourceVars, analyzeVars, diskVars, memVars, lockVars>>

\* A nested call of _process_impl_recursive returns to its caller's loop.
ProcReturn ==
  /\ LoopDone("process")
  /\ Len(call_stack) > 1
  /\ call_stack' = Pop(call_stack)
  /\ UNCHANGED <<project, hd_command_line_macros, hd_defined_macros, hd_results,
                 ancestor_paths, tree, hd_mode, hd_unit, hd_attempt, hd_entry_macros,
                 hd_evaluated, hd_order, hd_returned, nunits>>
  /\ UNCHANGED <<cacheVars, clearVars, evalVars, chainVars, hunterVars, expandVars, hashVars, flagVars, pkgVars, sourceVars, analyzeVars, diskVars, memVars, lockVars>>

\* _process_impl returned an empty set to process(), which calls it again.
ProcRetry ==
  /\ LoopDone("process")
  /\ Len(call_stack) = 1
  /\ hd_results \ {hd_unit} = {}
  /\ hd_attempt = 1
  /\ hd_attempt' = 2
  /\ hd_results' = {hd_unit}
  /\ Enter(hd_unit, <<hd_unit>>,
           initialize_includes_and_macros(hd_command_line_macros, hd_defined_macros),
           <<>>, EmptyMap, <<>>)
  /\ UNCHANGED <<project, hd_command_line_macros, ancestor_paths, tree, hd_mode, hd_unit,
                 hd_entry_macros, hd_returned, nunits>>
  /\ UNCHANGED <<cacheVars, clearVars, evalVars, chainVars, hunterVars, expandVars, hashVars, flagVars, pkgVars, sourceVars, analyzeVars, diskVars, memVars, lockVars>>

\* process() returns results without the file itself.
ProcFinish ==
  /\ LoopDone("process")
  /\ Len(call_stack) = 1
  /\ hd_results \ {hd_unit} # {} \/ hd_attempt = 2
  /\ call_stack' = <<>>
  /\ hd_results' = hd_results \ {hd_unit}
  /\ hd_returned' = [mode |-> "process", unit |-> hd_unit, result |-> hd_results \ {hd_unit},
                      after |-> <<hd_returned.mode, hd_returned.unit>>]
  /\ hd_mode' = "idle"
  /\ UNCHANGED <<project, hd_command_line_macros, hd_defined_macros, ancestor_paths, tree,
                 hd_unit, hd_attempt, hd_entry_macros, hd_evaluated, hd_order, nunits>>
  /\ UNCHANGED <<cacheVars, clearVars, evalVars, chainVars, hunterVars, expandVars, hashVars, flagVars, pkgVars, sourceVars, analyzeVars, diskVars, memVars, lockVars>>

\* realpath in self.ancestor_paths
on_path(realpath, ancestors) == \E i \in 1..Len(ancestors) : ancestors[i] = realpath

\* generatetree(filename): ancestor_paths is emptied, the root node is
\* created and the file's call begins, from the macros the engine holds.
GenerateTree(filename) ==
  /\ hd_mode = "idle"
  /\ nunits < MaxUnits
  /\ hd_mode' = "tree"
  /\ hd_unit' = filename
  /\ hd_attempt' = 1
  /\ hd_entry_macros' = hd_defined_macros
  /\ ancestor_paths' = <<filename>>
  /\ tree' = {<<filename>>}
  /\ Enter(filename, <<filename>>, hd_defined_macros, <<>>, EmptyMap, <<>>)
  /\ nunits' = nunits + 1
  /\ UNCHANGED <<project, hd_command_line_macros, hd_results, hd_returned>>
  /\ UNCHANGED <<cacheVars, clearVars, evalVars, chainVars, hunterVars, expandVars, hashVars, flagVars, pkgVars, sourceVars, analyzeVars, diskVars, memVars, lockVars>>

\* _generate_tree_impl is called for an include that resolves to a file not
\* among the ancestors: it becomes a child node and its call begins.
TreeRecurse ==
  /\ InLoop("tree")
  /\ trialpath # NoPath
  /\ ~on_path(trialpath, ancestor_paths)
  /\ Len(call_stack) < MaxDepth
  /\ ancestor_paths' = Append(ancestor_paths, trialpath)
  /\ tree' = tree \cup {Append(ancestor_paths, trialpath)}
  /\ Enter(trialpath, Append(ancestor_paths, trialpath), hd_defined_macros,
           advance(call_stack), hd_evaluated, hd_order)
  /\ UNCHANGED <<project, hd_command_line_macros, hd_results, hd_mode, hd_unit,
                 hd_attempt, hd_entry_macros, hd_returned, nunits>>
  /\ UNCHANGED <<cacheVars, clearVars, evalVars, chainVars, hunterVars, expandVars, hashVars, flagVars, pkgVars, sourceVars, analyzeVars, diskVars, memVars, lockVars>>

\* _generate_tree_impl is called for a file that is one of the ancestors: it
\* returns at once ("breaking the cycle").
TreeCut ==
  /\ InLoop("tree")
  /\ trialpath # NoPath
  /\ on_path(trialpath, ancestor_paths)
  /\ call_stack' = advance(call_stack)
  /\ UNCHANGED <<project, hd_command_line_macros, hd_defined_macros, hd_results,
                 ancestor_paths, tree, hd_mode, hd_unit, hd_attempt, hd_entry_macros,
                 hd_evaluated, hd_order, hd_returned, nunits>>
  /\ UNCHANGED <<cacheVars, clearVars, evalVars, chainVars, hunterVars, expandVars, hashVars, flagVars, pkgVars, sourceVars, analyzeVars, diskVars, memVars, lockVars>>

\* The include does not resolve.
TreeSkip ==
  /\ InLoop("tree")
  /\ trialpath = NoPath
  /\ call_stack' = advance(call_stack)
  /\ UNCHANGED <<project, hd_command_line_macros, hd_defined_macros, hd_results,
                 ancestor_paths, tree, hd_mode, hd_unit, hd_attempt, hd_entry_macros,
                 hd_evaluated, hd_order, hd_returned, nunits>>
  /\ UNCHANGED <<cacheVars, clearVars, evalVars, chainVars, hunterVars, expandVars, hashVars, flagVars, pkgVars, sourceVars, analyzeVars, diskVars, memVars, lockVars>>

\* A call of _generate_tree_impl ends: ancestor_paths.pop(); the outermost
\* call returns the tree to generatetree's caller.
TreeReturn ==
  /\ LoopDone("tree")
  /\ call_stack' = Pop(call_stack)
  /\ ancestor_paths' = Pop(ancestor_paths)
  /\ IF Len(call_stack) = 1
     THEN /\ hd_returned' = [mode |-> "tree", unit |-> hd_unit, result |-> tree,
                              after |-> <<hd_returned.mode, hd_returned.unit>>]
          /\ hd_mode' = "idle"
     ELSE UNCHANGED <<hd_returned, hd_mode>>
  /\ UNCHANGED <<project, hd_command_line_macros, hd_defined_macros, hd_results, tree,
                 hd_unit, hd_attempt, hd_entry_macros, hd_evaluated, hd_order, nunits>>
  /\ UNCHANGED <<cacheVars, clearVars, evalVars, chainVars, hunterVars, expandVars, hashVars, flagVars, pkgVars, sourceVars, analyzeVars, diskVars, memVars, lockVars>>

\* The steps a running call takes by itself.
DepsStep ==
  \/ ProcRecurse
  \/ ProcSkip
  \/ ProcReturn
  \/ ProcRetry
  \/ ProcFinish
  \/ TreeRecurse
  \/ TreeCut
  \/ TreeSkip
  \/ TreeReturn

DepsNext ==
  \/ \E filename \in Units : Process(filename)
  \/ \E filename \in Units : GenerateTree(filename)
  \/ DepsStep

SpecDeps == DepsInit /\ [][DepsNext]_vars

\* ------------------------------------------------------------------------
\* Claims about the traversal
\* ------------------------------------------------------------------------
\* C6: whatever the engine analysed before, process(unit) returns the header
\* set that a freshly constructed engine returns for the unit: the results
\* of the units do not depend on the order they are processed in.
C6_UnitsIndependent ==
  hd_returned.mode = "process" =>
    hd_returned.result =
      headerdeps_process(project, hd_returned.unit, hd_command_line_macros,
                         hd_command_line_macros)

\* The headers the unit would get from the macros the previous analysis left.
polluted_result ==
  process_impl_recursive(project, hd_unit,
                         [results |-> {}, defined_macros |-> hd_entry_macros]).results
    \ {hd_unit}

\* A unit was processed right after another unit had left macros that would
\* have changed its headers.
C6_Witness ==
  /\ hd_mode = "idle"
  /\ hd_returned.mode = "process"
  /\ hd_returned.after[1] = "process"
  /\ hd_returned.after[2] # hd_returned.unit
  /\ hd_entry_macros # hd_command_line_macros
  /\ polluted_result # hd_returned.result

file_of(node) == node[Len(node)]

\* The names whose last active #define / #undef in the file is an #undef;
\* text holds the file's active lines in file order.
undef_last(fa, text) ==
  {N \in MacroNames :
     \E j \in 1..Len(text) :
       /\ fa[text[j] + 1].t = "undef" /\ fa[text[j] + 1].n = N
       /\ \A k \in (j + 1)..Len(text) :
            ~(fa[text[k] + 1].t = "define" /\ fa[text[k] + 1].n = N)}

\* The macros the traversal went on with after its i-th evaluation.
propagated(i) ==
  IF i < Len(hd_order) THEN hd_evaluated[hd_order[i + 1]].before ELSE hd_defined_macros

\* The file starts with a conditional on one name that guards an #include.
guarded_include(fa) ==
  Len(fa) >= 2 /\ fa[1].t \in {"ifdef", "ifndef"} /\ fa[2].t = "include"

\* C7: a name removed by an active #undef is absent from the macro state the
\* traversal goes on with; in a file evaluated later an #ifndef of an absent
\* name is active and an #ifdef of it inactive, and the header included under
\* the active one is in the include list and, when it resolves, among the
\* unit's dependencies.
C7_UndefPropagates ==
  /\ \A i \in 1..Len(hd_order) :
       \A N \in undef_last(project[file_of(hd_order[i])], hd_evaluated[hd_order[i]].text) :
         N \notin DOMAIN propagated(i)
  /\ \A node \in DOMAIN hd_evaluated :
       guarded_include(project[file_of(node)]) =>
         /\ InSeq(1, hd_evaluated[node].text) =
              ((project[file_of(node)][1].t = "ifndef")
                 = (project[file_of(node)][1].n \notin DOMAIN hd_evaluated[node].before))
         /\ InSeq(1, hd_evaluated[node].text) =>
              /\ InSeq(project[file_of(node)][2].n, hd_evaluated[node].includes)
              /\ (hd_mode = "idle" /\ hd_returned.mode = "process"
                    /\ find_include(project, project[file_of(node)][2].n) # NoPath)
                   => project[file_of(node)][2].n \in hd_returned.result \cup {hd_unit}

\* A header defined A, a later one removed it with #undef, and a header
\* after that got its #ifndef A include into the unit's dependencies.
C7_Witness ==
  /\ hd_mode = "idle"
  /\ hd_returned.mode = "process"
  /\ "A" \notin DOMAIN hd_command_line_macros
  /\ \E g, i, j \in 2..Len(hd_order) :
       /\ g < i /\ i < j
       /\ "A" \notin DOMAIN hd_evaluated[hd_order[g]].before
       /\ "A" \in DOMAIN propagated(g)
       /\ "A" \in DOMAIN hd_evaluated[hd_order[i]].before
       /\ "A" \in undef_last(project[file_of(hd_order[i])], hd_evaluated[hd_order[i]].text)
       /\ guarded_include(project[file_of(hd_order[j])])
       /\ project[file_of(hd_order[j])][1] = Ifndef("A")
       /\ project[file_of(hd_order[j])][2].n \in hd_returned.result

\* The first call made on an engine, of either kind.
FirstCall ==
  /\ nunits = 0
  /\ \E filename \in Units : Process(filename) \/ GenerateTree(filename)

FirstCallNext ==
  \/ FirstCall
  \/ DepsStep

\* A call that has begun runs on until it returns: nothing but the
\* interpreter executes it.
SpecDepsFair == DepsInit /\ [][FirstCallNext]_vars /\ WF_vars(DepsStep)

\* The files of the calls that have not returned yet.
current_path == {call_stack[i].path : i \in 1..Len(call_stack)}

\* The loop of the topmost call has reached a file that is still on the
\* current include path.
AtCycle ==
  /\ hd_mode # "idle"
  /\ call_stack # <<>>
  /\ Top(call_stack).idx <= Len(Top(call_stack).includes)
  /\ trialpath \in current_path

\* What process() returned is closed under the include lists of the files
\* it evaluated, and it evaluated every file it reports.
ProcessComplete ==
  (hd_mode = "idle" /\ hd_returned.mode = "process") =>
    /\ {file_of(node) : node \in DOMAIN hd_evaluated} = hd_returned.result \cup {hd_unit}
    /\ \A node \in DOMAIN hd_evaluated :
         \A k \in 1..Len(hd_evaluated[node].includes) :
           find_include(project, hd_evaluated[node].includes[k]) # NoPath =>
             find_include(project, hd_evaluated[node].includes[k])
               \in hd_returned.result \cup {hd_unit}

\* Every node of the tree generatetree() returned was evaluated, and each of
\* its includes that resolves is a child of it or one of its ancestors.
TreeComplete ==
  (hd_mode = "idle" /\ hd_returned.mode = "tree") =>
    /\ DOMAIN hd_evaluated = hd_returned.result
    /\ \A node \in hd_returned.result :
         \A k \in 1..Len(hd_evaluated[node].includes) :
           find_include(project, hd_evaluated[node].includes[k]) # NoPath =>
             \/ on_path(hd_evaluated[node].includes[k], node)
             \/ Append(node, hd_evaluated[node].includes[k]) \in hd_returned.result

\* C10: every traversal that begins returns; at a file that is still on the
\* current include path the loop just moves on to the next include; and the
\* result holds every file that the include lists of the evaluated files
\* lead to.
C10_TraversalTerminates ==
  /\ (hd_mode # "idle") ~> (hd_mode = "idle")
  /\ [][AtCycle => (call_stack' = advance(call_stack) /\ hd_mode' = hd_mode)]_vars
  /\ [](ProcessComplete /\ TreeComplete)

\* process() has returned from a project in which two headers include each
\* other, both of them reported.
C10_Witness ==
  /\ hd_mode = "idle"
  /\ hd_returned.mode = "process"
  /\ \E f, g \in hd_returned.result :
       /\ f # g
       /\ InSeq(g, hd_evaluated[<<f>>].includes)
       /\ InSeq(f, hd_evaluated[<<g>>].includes)

\* ------------------------------------------------------------------------
\* magicflags.py: DirectMagicFlags.readfile
\* ------------------------------------------------------------------------
\* max_iterations of readfile
readfile_max_iterations == 5

\* The condition of readfile's while loop.
loop_condition(previous, defined, n) == previous # defined /\ n < readfile_max_iterations

\* list(headers) + [filename] if filename not in headers else list(headers)
all_files(header_list, filename) ==
  IF InSeq(filename, header_list) THEN header_list ELSE Append(header_list, filename)

\* _process_conditional_compilation has processed fname to p: its text is
\* appended under the file's header line, and defined_macros / macro_values
\* are replaced by the preprocessor's macros.
appended(st, fname, p) ==
  [text |-> Append(st.text, [file |-> fname, lines |-> p.text]),
   macro_values |-> p.macros]

read_one(fs, fname, st) == appended(st, fname, process(fs[fname], st.macro_values))

\* The for loop of one iteration over all_files.
RECURSIVE read_files(_, _, _)
read_files(fs, files, st) ==
  IF files = <<>> THEN st
  ELSE CHOOSE end \in {read_files(fs, Tail(files), next) :
                         next \in {read_one(fs, Head(files), st)}} : TRUE

\* One iteration of the while loop from the macros `values`.
one_iteration(fs, files, values) ==
  read_files(fs, files, [text |-> <<>>, macro_values |-> values])

\* The orders in which list() can yield the elements of a set.
Orderings(S) ==
  {o \in [1..Cardinality(S) -> S] : \A i, j \in 1..Cardinality(S) : i # j => o[i] # o[j]}

\* What readfile prints at verbose >= 9 in one iteration.
RECURSIVE processing_messages(_)
processing_messages(files) ==
  IF files = <<>> THEN <<>>
  ELSE <<[kind |-> "processing", file |-> Head(files)]>> \o processing_messages(Tail(files))

iteration_messages(v, n, files) ==
  IF v >= 9
  THEN <<[kind |-> "iteration", file |-> ""]>> \o processing_messages(files)
  ELSE <<>>

\* ------------------------------------------------------------------------
\* SpecHunter: one DirectMagicFlags on one engine, readfile step by step
\* ------------------------------------------------------------------------
MaxReads == 2

\* The translation unit u1.cpp of the hunter's projects: flags next to an
\* include, a macro its header tests, a file that defines A where it is
\* undefined and undefines it where it is defined, and a file that changes
\* the value of A.
HunterUnits ==
  {<<Include("a.hpp"), Magic("LDFLAGS", <<"-lm">>)>>,
   <<Define("B", <<>>), Include("a.hpp")>>,
   <<Ifdef("A"), Undef("A"), Else, Define("A", <<>>), Endif>>,
   <<If(<<"A", "==", "1">>), Define("A", <<"2">>), Magic("SOURCE", <<"x.cpp">>), Endif>>}

HunterHeaders ==
  {<<TextLine>>,
   <<Ifdef("B"), Magic("CXXFLAGS", <<"-DB">>), Endif>>,
   <<Ifdef("A"), Define("B", <<>>), Endif>>}

HunterProjects ==
  {Project(u1, <<Include("a.hpp")>>, a, <<TextLine>>, <<TextLine>>) :
     u1 \in HunterUnits, a \in HunterHeaders}

HunterInit ==
  /\ CacheInit /\ NoLock /\ NoMem /\ NoDisk /\ NoAnalyze /\ NoSource /\ NoPkg /\ NoFlags /\ NoEval /\ NoChain /\ NoExpand /\ NoHash
  /\ project \in HunterProjects
  /\ hd_command_line_macros \in CommandLines
  /\ EngineInit
  /\ verbose \in {0, 9}
  /\ MagicFlagsInit

\* readfile up to its while loop: the macros are reset and seeded from the
\* command line and the compiler, and the headers come from the engine,
\* which leaves the engine's defined_macros as its traversal ended.
ReadFile(filename) ==
  /\ mf_pc = "idle"
  /\ hd_mode = "idle"
  /\ nreads < MaxReads
  /\ nreads' = nreads + 1
  /\ mf_filename' = filename
  /\ mf_defined_macros' = DOMAIN hd_command_line_macros
  /\ macro_values' = hd_command_line_macros
  /\ \E st \in {process_impl_state(project, filename, hd_command_line_macros,
                                      hd_defined_macros)} :
       /\ hd_defined_macros' = st.defined_macros
       /\ headers' \in Orderings(st.results \ {filename})
  /\ previous_macros' = {}
  /\ iteration' = 0
  /\ mf_text' = Unbound
  /\ mf_output' = <<>>
  /\ mf_returned' = [kind |-> "none", text |-> <<>>]
  /\ mf_pc' = "loop"
  /\ UNCHANGED <<verbose, project, hd_command_line_macros, hd_results, ancestor_paths,
                 tree, call_stack, hd_mode, hd_unit, hd_attempt, hd_entry_macros,
                 hd_evaluated, hd_order, hd_returned, nunits>>
  /\ UNCHANGED <<cacheVars, clearVars, evalVars, chainVars, expandVars, hashVars, flagVars, pkgVars, sourceVars, analyzeVars, diskVars, memVars, lockVars>>

\* One pass of the while loop.
Iterate ==
  /\ mf_pc = "loop"
  /\ loop_condition(previous_macros, mf_defined_macros, iteration)
  /\ previous_macros' = mf_defined_macros
  /\ iteration' = iteration + 1
  /\ mf_output' = mf_output \o iteration_messages(verbose, iteration + 1,
                                                   all_files(headers, mf_filename))
  /\ \E r \in {one_iteration(project, all_files(headers, mf_filename), macro_values)} :
       /\ mf_text' = [bound |-> TRUE, files |-> r.text]
       /\ macro_values' = r.macro_values
       /\ mf_defined_macros' = DOMAIN r.macro_values
  /\ UNCHANGED <<verbose, mf_filename, headers, mf_pc, mf_returned, nreads>>
  /\ UNCHANGED <<cacheVars, clearVars, evalVars, chainVars, depsVars, expandVars, hashVars, flagVars, pkgVars, sourceVars, analyzeVars, diskVars, memVars, lockVars>>

\* return text, once the loop condition is false; text is unbound when the
\* loop has not run.
Return ==
  /\ mf_pc = "loop"
  /\ ~loop_condition(previous_macros, mf_defined_macros, iteration)
  /\ mf_returned' = IF mf_text.bound
                    THEN [kind |-> "text", text |-> mf_text.files]
                    ELSE [kind |-> "UnboundLocalError", text |-> <<>>]
  /\ mf_pc' = "idle"
  /\ UNCHANGED <<verbose, mf_filename, mf_defined_macros, macro_values, headers,
                 previous_macros, iteration, mf_text, mf_output, nreads>>
  /\ UNCHANGED <<cacheVars, clearVars, evalVars, chainVars, depsVars, expandVars, hashVars, flagVars, pkgVars, sourceVars, analyzeVars, diskVars, memVars, lockVars>>

HunterNext ==
  \/ \E filename \in Units : ReadFile(filename)
  \/ Iterate
  \/ Return

SpecHunter == HunterInit /\ [][HunterNext]_vars

\* The magic flags of a text, file by file in order.
RECURSIVE flags_of_lines(_, _)
flags_of_lines(fa, lines) ==
  IF lines = <<>> THEN <<>>
  ELSE (IF fa[Head(lines) + 1].t = "magic"
        THEN <<[key |-> fa[Head(lines) + 1].n, flag |-> fa[Head(lines) + 1].v]>>
        ELSE <<>>) \o flags_of_lines(fa, Tail(lines))

RECURSIVE flags_of(_, _)
flags_of(fs, files) ==
  IF files = <<>> THEN <<>>
  ELSE flags_of_lines(fs[Head(files).file], Head(files).lines) \o flags_of(fs, Tail(files))

implied_sources(flags) == SelectSeq(flags, LAMBDA f : f.key = "SOURCE")

\* The loop has run and has stopped on previous_macros = defined_macros.
Converged ==
  /\ mf_pc = "idle" /\ mf_returned.kind = "text"
  /\ previous_macros = mf_defined_macros

\* C8: once the loop has stopped because the macros did not change, one
\* more iteration from the state it left yields the same flags, the same
\* implied sources and the same macro names and values.
C8_OneMoreIterationSame ==
  Converged =>
    /\ flags_of(project, one_iteration(project, all_files(headers, mf_filename),
                                       macro_values).text)
         = flags_of(project, mf_returned.text)
    /\ implied_sources(flags_of(project,
           one_iteration(project, all_files(headers, mf_filename), macro_values).text))
         = implied_sources(flags_of(project, mf_returned.text))
    /\ one_iteration(project, all_files(headers, mf_filename), macro_values).macro_values
         = macro_values

\* The loop has stopped at the bound with the macros still changing.
BoundReached ==
  /\ mf_pc = "idle" /\ mf_returned.kind # "none"
  /\ iteration = readfile_max_iterations
  /\ previous_macros # mf_defined_macros

\* C9: readfile never makes more than 5 iterations, and when it stops at
\* the bound with the macros still changing it has emitted a warning and
\* returns the text of the last iteration.
C9_BoundedWithWarning ==
  /\ iteration <= readfile_max_iterations
  /\ BoundReached =>
       /\ \E i \in 1..Len(mf_output) : mf_output[i].kind = "warning"
       /\ mf_returned = [kind |-> "text", text |-> mf_text.files]

\* The parts of C9 apart from the warning.
C9_BoundedReturnsLast ==
  /\ iteration <= readfile_max_iterations
  /\ BoundReached => mf_returned = [kind |-> "text", text |-> mf_text.files]

\* ------------------------------------------------------------------------
\* SpecEval: the frame stack
\* ------------------------------------------------------------------------
\* The directive handled by the turn of the loop that led to the state w'
\* from w, when that turn handled one.
at_directive(fa, w) ==
  /\ w.i < line_count(fa)
  /\ w.di <= Len(directive_lines(fa))
  /\ directive_lines(fa)[w.di] = w.i

\* C11: the frame stack is never empty and its bottom frame stays
\* (true, false, false), whatever #endif, #else or #elif come unmatched.
C11_BottomFrameKept ==
  /\ Len(ev_w.stack) >= 1
  /\ ev_w.stack[1] = BottomFrame

\* An #endif, #else or #elif has been handled on the bottom frame alone.
C11_Witness ==
  /\ ev_w.i = 3
  /\ ev_fa[1].t = "else" /\ ev_fa[2].t = "endif" /\ ev_fa[3].t = "elif"
  /\ ev_w.stack = <<BottomFrame>>

\* The value of the condition of the opener d under macros: a missing name
\* or condition, or one that cannot be evaluated, counts as false.
opener_condition(d, macros) ==
  CASE d.t = "ifdef"  -> d.n # "" /\ d.n \in DOMAIN macros
    [] d.t = "ifndef" -> d.n # "" /\ d.n \notin DOMAIN macros
    [] OTHER -> d.c # <<>> /\ evaluate_expression_sz(d.c, macros).result

\* C12: every #ifdef, #ifndef and #if pushes exactly one frame
\* (parent.active /\ condition, false, that value), also when its name or
\* condition is missing or cannot be evaluated.
C12_OpenerPushesOneFrame ==
  [][(at_directive(ev_fa, ev_w) /\ ev_fa[ev_w.i + 1].t \in {"ifdef", "ifndef", "if"}) =>
       ev_w'.stack =
         Append(ev_w.stack,
                Frame(Top(ev_w.stack)[1] /\ opener_condition(ev_fa[ev_w.i + 1], ev_w.macros),
                      FALSE,
                      Top(ev_w.stack)[1] /\ opener_condition(ev_fa[ev_w.i + 1], ev_w.macros)))
    ]_vars

\* C12 for the openers that carry a name or a condition.
C12_NamedOpenerPushesOneFrame ==
  [][(/\ at_directive(ev_fa, ev_w)
      /\ ev_fa[ev_w.i + 1].t \in {"ifdef", "ifndef", "if"}
      /\ (ev_fa[ev_w.i + 1].n # "" \/ ev_fa[ev_w.i + 1].t = "if")) =>
       ev_w'.stack =
         Append(ev_w.stack,
                Frame(Top(ev_w.stack)[1] /\ opener_condition(ev_fa[ev_w.i + 1], ev_w.macros),
                      FALSE,
                      Top(ev_w.stack)[1] /\ opener_condition(ev_fa[ev_w.i + 1], ev_w.macros)))
    ]_vars

\* ------------------------------------------------------------------------
\* SpecEval: the branches of one chain
\* ------------------------------------------------------------------------
\* The frames above the bottom frame.
chain_frames(stack) == {stack[j] : j \in 2..Len(stack)}

\* The frame below the top frame is active.
parent_active_in(stack) == stack[Len(stack) - 1][1]

\* An #elif or #else is handled on the frame of an open chain.
at_branch(ty) ==
  /\ at_directive(ev_fa, ev_w)
  /\ ev_fa[ev_w.i + 1].t = ty
  /\ Len(ev_w.stack) > 1

\* The rule of C13 on the frames: a frame that is active
\* has its branch recorded as taken; an #elif is active exactly when no
\* earlier branch was taken, no #else was seen, the parent is active and its
\* expression is non-zero; an #else is active exactly when no #else was
\* seen, the parent is active and no earlier branch was taken; a branch once
\* taken stays recorded.
C13_FrameRule ==
  [][/\ \A f \in chain_frames(ev_w'.stack) : f[1] => f[3]
     /\ at_branch("elif") =>
          /\ Len(ev_w'.stack) = Len(ev_w.stack)
          /\ Top(ev_w'.stack)[1] =
               (/\ ~Top(ev_w.stack)[3] /\ ~Top(ev_w.stack)[2]
                /\ parent_active_in(ev_w.stack)
                /\ opener_condition(ev_fa[ev_w.i + 1], ev_w.macros))
          /\ Top(ev_w'.stack)[2] = Top(ev_w.stack)[2]
          /\ Top(ev_w'.stack)[3] = (Top(ev_w.stack)[3] \/ Top(ev_w'.stack)[1])
     /\ at_branch("else") =>
          /\ Len(ev_w'.stack) = Len(ev_w.stack)
          /\ Top(ev_w'.stack)[1] =
               (/\ ~Top(ev_w.stack)[3] /\ ~Top(ev_w.stack)[2]
                /\ parent_active_in(ev_w.stack))
          /\ Top(ev_w'.stack)[2]
          /\ Top(ev_w'.stack)[3] = (Top(ev_w.stack)[3] \/ Top(ev_w'.stack)[1])
    ]_vars

\* ------------------------------------------------------------------------
\* SpecEval: chains and regions as the file's text nests them
\* ------------------------------------------------------------------------
\* The branches of the text that enclose a line, innermost last, each
\* <<line of the chain's opener, number of the branch in its chain>>.
text_nesting_step(nest, ln, i) ==
  CASE ln.t \in {"ifdef", "ifndef", "if"} -> Append(nest, <<i, 0>>)
    [] ln.t \in {"elif", "else"} ->
         IF nest = <<>> THEN nest ELSE Append(Pop(nest), <<Top(nest)[1], Top(nest)[2] + 1>>)
    [] ln.t = "endif" -> IF nest = <<>> THEN nest ELSE Pop(nest)
    [] OTHER -> nest

RECURSIVE text_nesting_from(_, _, _)
text_nesting_from(fa, i, nest) ==
  IF i >= Len(fa) THEN <<>>
  ELSE <<nest>> \o text_nesting_from(fa, i + 1, text_nesting_step(nest, fa[i + 1], i))

text_nesting(fa) == text_nesting_from(fa, 0, <<>>)

\* The lines that are not conditional directives, by line number.
plain_lines(fa) ==
  {i \in 0..(Len(fa) - 1) : fa[i + 1].t \notin {"ifdef", "ifndef", "if", "elif", "else", "endif"}}

\* C13: within one chain of the text at most one branch is active: no two
\* reported lines lie directly in different branches of the same chain.
C13_OneBranchPerChain ==
  EvalDone =>
    \A i, j \in plain_lines(ev_fa) :
      (/\ InSeq(i, ev_w.active) /\ InSeq(j, ev_w.active)
       /\ text_nesting(ev_fa)[i + 1] # <<>> /\ text_nesting(ev_fa)[j + 1] # <<>>
       /\ Top(text_nesting(ev_fa)[i + 1])[1] = Top(text_nesting(ev_fa)[j + 1])[1])
      => Top(text_nesting(ev_fa)[i + 1])[2] = Top(text_nesting(ev_fa)[j + 1])[2]

\* Every opener of the file carries a name or is an #if.
openers_named(fa) ==
  \A i \in 1..Len(fa) : fa[i].t \in {"ifdef", "ifndef"} => fa[i].n # ""

\* C13 for the files whose openers all push a frame.
C13_OneBranchPerNamedChain == openers_named(ev_fa) => C13_OneBranchPerChain

\* The rule of C14 on the frames: a frame is active only if the frame
\* below it is.
C14_FrameRule ==
  \A j \in 2..Len(ev_w.stack) : ev_w.stack[j][1] => ev_w.stack[j - 1][1]

IsPrefix(s, t) == Len(s) <= Len(t) /\ SubSeq(t, 1, Len(s)) = s

\* C14: no line nested inside an inactive region is reported active: when
\* a line lying directly in a branch is not reported, no line of that
\* branch or of a conditional nested in it is reported.
C14_InactiveRegionHidesLines ==
  EvalDone =>
    \A i, j \in plain_lines(ev_fa) :
      (/\ ~InSeq(i, ev_w.active)
       /\ text_nesting(ev_fa)[i + 1] # <<>>
       /\ IsPrefix(text_nesting(ev_fa)[i + 1], text_nesting(ev_fa)[j + 1]))
      => ~InSeq(j, ev_w.active)

\* C14 for the files whose openers all push a frame.
C14_NamedRegionHidesLines == openers_named(ev_fa) => C14_InactiveRegionHidesLines

\* ------------------------------------------------------------------------
\* SpecEval: #define and #undef
\* ------------------------------------------------------------------------
\* The turn of the loop handles a directive of type ty that names a macro.
at_named(ty) ==
  /\ at_directive(ev_fa, ev_w)
  /\ ev_fa[ev_w.i + 1].t = ty
  /\ ev_fa[ev_w.i + 1].n # ""

\* C15: an active #define N V sets env[N] to V, or to "1" without a value,
\* an active #undef N removes N, and every other turn of the loop, a
\* #define or #undef under an inactive top frame included, leaves the
\* environment as it is.
C15_DefineUndefOnlyWhenActive ==
  [][IF at_named("define") /\ Top(ev_w.stack)[1]
     THEN ev_w'.macros =
            [n \in DOMAIN ev_w.macros \cup {ev_fa[ev_w.i + 1].n} |->
               IF n = ev_fa[ev_w.i + 1].n
               THEN (IF ev_fa[ev_w.i + 1].v = <<>> THEN <<"1">> ELSE ev_fa[ev_w.i + 1].v)
               ELSE ev_w.macros[n]]
     ELSE IF at_named("undef") /\ Top(ev_w.stack)[1]
          THEN ev_w'.macros =
                 [n \in DOMAIN ev_w.macros \ {ev_fa[ev_w.i + 1].n} |-> ev_w.macros[n]]
          ELSE ev_w'.macros = ev_w.macros
    ]_vars

\* An active #define without a value has set A to "1" and a #define in an
\* inactive region has left it.
C15_Witness ==
  /\ ev_fa = <<Define("A", <<>>), Ifndef("A"), Define("A", <<"B">>)>>
  /\ ev_env = EmptyEnv
  /\ ev_w.i = 3
  /\ ev_w.macros = EnvSet(EmptyEnv, "A", <<"1">>)

\* ------------------------------------------------------------------------
\* SpecEval: multi-line directives
\* ------------------------------------------------------------------------
\* The lines L .. L+k of the directive at line L.
unit_lines(fa, L) == L..(L + fa[L + 1].k)

all_or_none(lines, active) ==
  \/ \A l \in lines : InSeq(l, active)
  \/ \A l \in lines : ~InSeq(l, active)

\* C16: the turn of the loop that handles a directive with k continuation
\* lines at line L goes on at line L+k+1 and has reported all of the lines
\* L..L+k or none of them, and in the returned active_lines every
\* directive's lines are all present or all absent.
C16_DirectiveIsOneUnit ==
  [][/\ at_directive(ev_fa, ev_w) =>
          /\ ev_w'.i = ev_w.i + ev_fa[ev_w.i + 1].k + 1
          /\ all_or_none(unit_lines(ev_fa, ev_w.i), ev_w'.active)
     /\ ev_w'.i >= line_count(ev_fa) =>
          \A L \in 0..(Len(ev_fa) - 1) :
            IsDirective(ev_fa[L + 1]) => all_or_none(unit_lines(ev_fa, L), ev_w'.active)
    ]_vars

\* A two-line #define has been handled: both of its lines are reported and
\* the loop is at the line after them.
C16_Witness ==
  /\ ev_fa = <<Line("define", "B", <<"1">>, <<>>, 1), TextLine, TextLine>>
  /\ ev_w.i = 2
  /\ ev_w.active = <<0, 1>>

\* ------------------------------------------------------------------------
\* SpecEval: conditions that cannot be evaluated
\* ------------------------------------------------------------------------
\* The expanded condition holds a character outside the allowed set (every
\* identifier has one) or is not an expression.
cannot_evaluate(c, macros) ==
  \/ \E i \in 1..Len(recursive_expand_macros_sz(c, macros)) :
       IsIdent(recursive_expand_macros_sz(c, macros)[i])
  \/ ~ValidOr(recursive_expand_macros_sz(c, macros))

\* C17: an #if or #elif whose condition cannot be evaluated is treated as
\* not taken: the #if pushes (false, false, false), the #elif of a chain
\* without a taken branch leaves (false, false, false), and the loop goes on
\* at the line after the directive.
C17_UnevaluableIsNotTaken ==
  [][(/\ at_directive(ev_fa, ev_w)
      /\ ev_fa[ev_w.i + 1].c # <<>>
      /\ cannot_evaluate(ev_fa[ev_w.i + 1].c, ev_w.macros)) =>
       /\ ev_w'.i = ev_w.i + ev_fa[ev_w.i + 1].k + 1
       /\ ev_w'.macros = ev_w.macros
       /\ ev_fa[ev_w.i + 1].t = "if" =>
            ev_w'.stack = Append(ev_w.stack, <<FALSE, FALSE, FALSE>>)
       /\ (/\ ev_fa[ev_w.i + 1].t = "elif" /\ Len(ev_w.stack) > 1
           /\ ~Top(ev_w.stack)[2] /\ ~Top(ev_w.stack)[3]) =>
            ev_w'.stack = Append(Pop(ev_w.stack), <<FALSE, FALSE, FALSE>>)
    ]_vars

\* '#if 1 ==' and '#elif !' have both been passed as not taken, and the
\* #else of the chain is active.
C17_Witness ==
  /\ ev_fa = <<If(<<"1", "==">>), TextLine, Elif(<<"!">>), TextLine, Else, TextLine, Endif>>
  /\ ev_w.i = 6
  /\ ev_w.active = <<5>>

\* ------------------------------------------------------------------------
\* SpecEval: identifiers that are not defined
\* ------------------------------------------------------------------------
\* The expression with 0 in place of every identifier that is not reserved.
undefined_as_zero(expr) ==
  [i \in 1..Len(expr) |-> IF IsIdent(expr[i]) /\ expr[i] \notin Reserved THEN "0" ELSE expr[i]]

\* The value of a condition when the identifiers its expansion leaves
\* undefined count as 0.
value_with_zero(c, macros) ==
  /\ ValidOr(undefined_as_zero(recursive_expand_macros_sz(c, macros)))
  /\ TruthOr(undefined_as_zero(recursive_expand_macros_sz(c, macros)))

\* C18: in an #if condition every identifier that is neither defined nor
\* reserved evaluates to 0: the pushed frame is active exactly when the
\* parent is active and the condition, with 0 for those identifiers, is
\* non-zero; so "U" is false and "!U" is true for an undefined U.
C18_UndefinedIsZero ==
  [][(/\ at_directive(ev_fa, ev_w)
      /\ ev_fa[ev_w.i + 1].t = "if"
      /\ ev_fa[ev_w.i + 1].c # <<>>) =>
       Top(ev_w'.stack)[1] =
         (Top(ev_w.stack)[1] /\ value_with_zero(ev_fa[ev_w.i + 1].c, ev_w.macros))
    ]_vars

\* The half of C18 that holds: a condition that is one undefined
\* identifier is false.
C18_UndefinedAloneIsFalse ==
  [][(/\ at_directive(ev_fa, ev_w)
      /\ ev_fa[ev_w.i + 1].t = "if"
      /\ Len(ev_fa[ev_w.i + 1].c) = 1
      /\ IsIdent(ev_fa[ev_w.i + 1].c[1])
      /\ ev_fa[ev_w.i + 1].c[1] \notin DOMAIN ev_w.macros) =>
       ~Top(ev_w'.stack)[1]
    ]_vars

\* ------------------------------------------------------------------------
\* Macro expansion, step by step
\* ------------------------------------------------------------------------
\* Largest number of passes the step machine may begin; the loop of
\* _recursive_expand_macros_sz stops earlier by itself.
MaxPasses == 12

\* Environments with self-referential, mutually recursive, growing,
\* chained and empty definitions.
SelfEnv == [n \in {"A"} |-> <<"A">>]
MutualEnv == [n \in {"A", "B"} |-> IF n = "A" THEN <<"B">> ELSE <<"A">>]
GrowingEnv == [n \in {"A"} |-> <<"A", "||", "1">>]
ChainEnv == [n \in {"A", "B"} |-> IF n = "A" THEN <<"B">> ELSE <<"1">>]
BlankEnv == [n \in {"A"} |-> <<>>]

ExpandEnvs == {EmptyEnv, SelfEnv, MutualEnv, GrowingEnv, ChainEnv, BlankEnv}

ExpandInputs == {<<"A">>, <<"!", "B">>, <<"defined", "A", "&&", "B">>, <<"A", "==", "B">>}

\* A loop condition that forgets the bound on the passes.
pass_continues_unbounded(expr, previous_expr, passes) == expr # previous_expr

\* while expr_sz != previous_expr and iteration < max_iterations
pass_continues(expr, previous_expr, passes) ==
  expr # previous_expr /\ passes < max_iterations

\* One turn of the while loop of _expand_macros_sz at position i (0-based):
\* a non-identifier is skipped; an identifier is read to its end and, when
\* it is a name of the environment and not reserved, replaced by its value,
\* i moving to the end of the inserted value.
scan_step(result, i, macros) ==
  IF ~IsIdent(result[i + 1]) \/ result[i + 1] \in {"and", "or", "not"}
       \/ result[i + 1] \notin DOMAIN macros
  THEN [result |-> result, i |-> i + 1]
  ELSE [result |-> SubSeq(result, 1, i) \o macros[result[i + 1]]
                     \o SubSeq(result, i + 2, Len(result)),
        i |-> i + Len(macros[result[i + 1]])]

ExpandInit ==
  /\ CacheInit /\ NoLock /\ NoMem /\ NoDisk /\ NoAnalyze /\ NoSource /\ NoPkg /\ NoFlags /\ NoEval /\ NoChain /\ NoDeps /\ NoHunter /\ NoHash
  /\ xp_macros \in ExpandEnvs
  /\ xp_input \in ExpandInputs
  /\ xp_expr = xp_input
  /\ xp_previous = <<>>
  /\ xp_iteration = 0
  /\ xp_result = <<>>
  /\ xp_i = 0
  /\ xp_pc = "loop"

\* The loop test succeeds: previous_expr = expr_sz, and _expand_macros_sz
\* starts with the "defined" forms replaced and i = 0.
PassBegin ==
  /\ xp_pc = "loop"
  /\ pass_continues(xp_expr, xp_previous, xp_iteration)
  /\ xp_iteration < MaxPasses
  /\ xp_previous' = xp_expr
  /\ xp_result' = expand_defined(xp_expr, xp_macros)
  /\ xp_i' = 0
  /\ xp_pc' = "scan"
  /\ UNCHANGED <<xp_macros, xp_input, xp_expr, xp_iteration>>
  /\ UNCHANGED <<cacheVars, clearVars, evalVars, chainVars, depsVars, hunterVars, hashVars, flagVars, pkgVars, sourceVars, analyzeVars, diskVars, memVars, lockVars>>

ScanStep ==
  /\ xp_pc = "scan"
  /\ xp_i < Len(xp_result)
  /\ xp_result' = scan_step(xp_result, xp_i, xp_macros).result
  /\ xp_i' = scan_step(xp_result, xp_i, xp_macros).i
  /\ UNCHANGED <<xp_macros, xp_input, xp_expr, xp_previous, xp_iteration, xp_pc>>
  /\ UNCHANGED <<cacheVars, clearVars, evalVars, chainVars, depsVars, hunterVars, hashVars, flagVars, pkgVars, sourceVars, analyzeVars, diskVars, memVars, lockVars>>

\* _expand_macros_sz returns: expr_sz = result, iteration += 1.
PassEnd ==
  /\ xp_pc = "scan"
  /\ xp_i >= Len(xp_result)
  /\ xp_expr' = xp_result
  /\ xp_iteration' = xp_iteration + 1
  /\ xp_pc' = "loop"
  /\ UNCHANGED <<xp_macros, xp_input, xp_previous, xp_result, xp_i>>
  /\ UNCHANGED <<cacheVars, clearVars, evalVars, chainVars, depsVars, hunterVars, hashVars, flagVars, pkgVars, sourceVars, analyzeVars, diskVars, memVars, lockVars>>

\* The loop test fails: return expr_sz.
ExpandReturn ==
  /\ xp_pc = "loop"
  /\ ~pass_continues(xp_expr, xp_previous, xp_iteration)
  /\ xp_pc' = "done"
  /\ UNCHANGED <<xp_macros, xp_input, xp_expr, xp_previous, xp_iteration, xp_result, xp_i>>
  /\ UNCHANGED <<cacheVars, clearVars, evalVars, chainVars, depsVars, hunterVars, hashVars, flagVars, pkgVars, sourceVars, analyzeVars, diskVars, memVars, lockVars>>

ExpandNext == PassBegin \/ ScanStep \/ PassEnd \/ ExpandReturn

\* The call is one thread of straight-line code: it keeps running.
SpecExpand == ExpandInit /\ [][ExpandNext]_vars /\ WF_vars(ExpandNext)

\* The step machine returns what recursive_expand_macros_sz computes.
ExpandAgrees ==
  xp_pc = "done" => xp_expr = recursive_expand_macros_sz(xp_input, xp_macros)

\* Each turn of the scan brings i closer to the end of result.
ScanDecreases ==
  [][ScanStep => Len(xp_result') - xp_i' < Len(xp_result) - xp_i]_vars

\* C19: macro expansion of a condition terminates for every environment,
\* self-referential and mutually recursive definitions included: at most
\* max_iterations (10) passes are made, every pass that starts comes to its
\* end, and the call returns.
C19_ExpansionTerminates ==
  /\ [](xp_iteration <= max_iterations)
  /\ [](xp_pc = "scan" => <>(xp_pc = "loop"))
  /\ <>(xp_pc = "done")

\* A mutually recursive environment: the call returns after the tenth pass
\* with the expression still changing.
C19_Witness ==
  /\ xp_pc = "done"
  /\ xp_iteration = max_iterations
  /\ xp_expr # xp_previous
  /\ xp_macros = MutualEnv

\* ------------------------------------------------------------------------
\* The macro fingerprint of a dict
\* ------------------------------------------------------------------------
\* Largest number of compute_macro_hash calls in one run.
MaxHashes == 2

\* A Python dict is the sequence of its items <<name, value>> in insertion
\* order, the names distinct.
\* "1|B=2" is the value of "#define A 1|B=2".
HashValues == {<<"1">>, <<"2">>, <<"1", "|", "B", "=", "2">>}

dict_has(d, k) == \E i \in 1..Len(d) : d[i][1] = k

\* d[k] = v: an existing key keeps its place, a new key goes to the end.
dict_set(d, k, v) ==
  IF dict_has(d, k)
  THEN [i \in 1..Len(d) |-> IF d[i][1] = k THEN <<k, v>> ELSE d[i]]
  ELSE Append(d, <<k, v>>)

\* del d[k]
dict_del(d, k) == SelectSeq(d, LAMBDA it : it[1] # k)

\* The environment a dict stands for: its set of (name, value) pairs.
env_of(d) == [n \in {d[i][1] : i \in 1..Len(d)} |->
                (CHOOSE it \in {d[i] : i \in 1..Len(d)} : it[1] = n)[2]]

NameRank(n) == CHOOSE i \in 1..Len(NameOrder) : NameOrder[i] = n

\* sorted(): insert() puts one item into a sorted list, by key.
RECURSIVE insert_sorted(_, _)
insert_sorted(it, items) ==
  IF items = <<>> THEN <<it>>
  ELSE IF NameRank(it[1]) <= NameRank(Head(items)[1])
       THEN <<it>> \o items
       ELSE <<Head(items)>> \o insert_sorted(it, Tail(items))

RECURSIVE sort_items(_)
sort_items(items) ==
  IF items = <<>> THEN <<>>
  ELSE insert_sorted(Head(items), sort_items(Tail(items)))

\* The items taken in the dict's own order.
items_unsorted(d) == d

\* macro_items = sorted(macros_dict.items())
sorted_items(d) == sort_items(d)

\* "|".join(f"{k}={v}" for k, v in macro_items)
RECURSIVE join_parts(_)
join_parts(items) ==
  IF items = <<>> THEN <<>>
  ELSE IF Len(items) = 1 THEN <<items[1][1], "=">> \o items[1][2]
  ELSE <<items[1][1], "=">> \o items[1][2] \o <<"|">> \o join_parts(Tail(items))

\* hashlib.sha256(data).hexdigest(): 64 hexadecimal characters that stand
\* for the hashed bytes (SHA-256 taken as injective).
sha256_hexdigest(data) == [hex |-> 64, of |-> data]

\* h[:n]
hex_prefix(h, n) == [h EXCEPT !.hex = IF h.hex < n THEN h.hex ELSE n]

\* compute_macro_hash on a dict with its insertion order.
compute_macro_hash_dict(d) ==
  IF d = <<>>
  THEN hex_prefix(sha256_hexdigest(<<>>), 16)
  ELSE hex_prefix(sha256_hexdigest(join_parts(sorted_items(d))), 16)

HashInit ==
  /\ CacheInit /\ NoLock /\ NoMem /\ NoDisk /\ NoAnalyze /\ NoSource /\ NoPkg /\ NoFlags /\ NoEval /\ NoChain /\ NoDeps /\ NoHunter /\ NoExpand
  /\ fp_dict = <<>>
  /\ fp_log = <<>>

\* macros[k] = v
DictSet(k, v) ==
  /\ fp_dict' = dict_set(fp_dict, k, v)
  /\ UNCHANGED fp_log
  /\ UNCHANGED <<cacheVars, clearVars, evalVars, chainVars, depsVars, hunterVars, expandVars, flagVars, pkgVars, sourceVars, analyzeVars, diskVars, memVars, lockVars>>

\* del macros[k]
DictDel(k) ==
  /\ dict_has(fp_dict, k)
  /\ fp_dict' = dict_del(fp_dict, k)
  /\ UNCHANGED fp_log
  /\ UNCHANGED <<cacheVars, clearVars, evalVars, chainVars, depsVars, hunterVars, expandVars, flagVars, pkgVars, sourceVars, analyzeVars, diskVars, memVars, lockVars>>

\* compute_macro_hash(macros)
ComputeHash ==
  /\ Len(fp_log) < MaxHashes
  /\ fp_log' = Append(fp_log, [dict |-> fp_dict, hash |-> compute_macro_hash_dict(fp_dict)])
  /\ UNCHANGED fp_dict
  /\ UNCHANGED <<cacheVars, clearVars, evalVars, chainVars, depsVars, hunterVars, expandVars, flagVars, pkgVars, sourceVars, analyzeVars, diskVars, memVars, lockVars>>

HashNext ==
  \/ \E k \in MacroNames, v \in HashValues : DictSet(k, v)
  \/ \E k \in MacroNames : DictDel(k)
  \/ ComputeHash

SpecHash == HashInit /\ [][HashNext]_vars

\* The fingerprint of the cache key is the fingerprint of the dict.
HashAgrees ==
  \A i \in 1..Len(fp_log) :
    fp_log[i].hash.of = compute_macro_hash(env_of(fp_log[i].dict))

\* C20: the fingerprint is a function of the set of (name, value) pairs
\* only: every fingerprint computed is 16 hexadecimal characters, two
\* computations on dicts with the same pairs give the same fingerprint
\* whatever the insertion orders and whenever they are made, and the empty
\* dict always gives the one fingerprint of the empty input.
C20_FingerprintOfPairs ==
  \A i \in 1..Len(fp_log) :
    /\ fp_log[i].hash.hex = 16
    /\ fp_log[i].dict = <<>> =>
         fp_log[i].hash = hex_prefix(sha256_hexdigest(<<>>), 16)
    /\ \A j \in 1..Len(fp_log) :
         env_of(fp_log[i].dict) = env_of(fp_log[j].dict) =>
           fp_log[i].hash = fp_log[j].hash

\* Two computations on the same two pairs, inserted in opposite orders.
C20_Witness ==
  /\ Len(fp_log) = 2
  /\ Len(fp_log[1].dict) = 2
  /\ fp_log[1].dict # fp_log[2].dict
  /\ env_of(fp_log[1].dict) = env_of(fp_log[2].dict)

\* C21: two environments that differ in a name, a value or the presence of
\* a macro have different fingerprints: the hashed string determines the
\* set of (name, value) pairs.
C21_FingerprintInjective ==
  \A i \in 1..Len(fp_log) : \A j \in 1..Len(fp_log) :
    env_of(fp_log[i].dict) # env_of(fp_log[j].dict) =>
      fp_log[i].hash # fp_log[j].hash

\* The part of C21 that holds: environments whose values hold neither "|"
\* nor "=" and that differ have different fingerprints.
plain_values(d) ==
  \A i \in 1..Len(d) : \A t \in 1..Len(d[i][2]) : d[i][2][t] \notin {"|", "="}

C21_PlainValuesInjective ==
  \A i \in 1..Len(fp_log) : \A j \in 1..Len(fp_log) :
    (/\ plain_values(fp_log[i].dict)
     /\ plain_values(fp_log[j].dict)
     /\ env_of(fp_log[i].dict) # env_of(fp_log[j].dict)) =>
      fp_log[i].hash # fp_log[j].hash

\* ------------------------------------------------------------------------
\* Claims about clear_cache and the statistics
\* ------------------------------------------------------------------------
\* What clear_cache leaves behind in the state of the cache module.
cleared_state ==
  /\ invariant_cache' = EmptyMap
  /\ variant_cache' = EmptyMap
  /\ cache_stats' = ZeroStats
  /\ analyze_file_cache' = {}

\* A get_or_compute call has just returned.
call_returns == last'.op = "get_or_compute" /\ ncalls' = ncalls + 1

\* The call that just returned was answered from an entry that
\* _preprocessor_cache already held at the last clear_cache.
served_stale ==
  /\ last'.how = "miss"
  /\ last'.memo
  /\ <<content_hash(last'.fa), compute_macro_hash(last'.input)>> \in stale_memo

\* C22: after clear_cache() both tiers are empty, every counter is zero and
\* the file-analysis memo is empty, and no get_or_compute call made later
\* is answered from a preprocessing result memoized before the clear.
C22_ClearForgetsEverything ==
  [][/\ ClearCache => cleared_state
     /\ call_returns => ~served_stale]_vars

\* The part of C22 that holds: the tiers, the counters and the
\* file-analysis memo are empty after clear_cache.
C22_TiersAndCountersCleared == [][ClearCache => cleared_state]_vars

entries == Cardinality(DOMAIN invariant_cache) + Cardinality(DOMAIN variant_cache)

\* C23: after any sequence of get_or_compute and clear_cache calls
\* total_calls = hits + misses, hits = invariant_hits + variant_hits,
\* misses = invariant_misses + variant_misses, and the number of entries of
\* the two tiers is the number of misses since the last clear.
C23_StatsConsistent ==
  /\ cache_stats.total_calls = cache_stats.hits + cache_stats.misses
  /\ cache_stats.hits = cache_stats.invariant_hits + cache_stats.variant_hits
  /\ cache_stats.misses = cache_stats.invariant_misses + cache_stats.variant_misses
  /\ entries = cache_stats.misses

\* A call, a clear_cache and one more call, a miss: one entry, one miss.
C23_Witness ==
  /\ stale_memo # {}
  /\ ncalls = 2
  /\ cache_stats.total_calls = 1
  /\ cache_stats.misses = 1
  /\ entries = 1

\* ------------------------------------------------------------------------
\* Compiler flag deduplication (utils.deduplicate_compiler_flags)
\* ------------------------------------------------------------------------
\* Longest generated flag list.
MaxFlags == 4

\* A flag is the sequence of its lexical parts: <<"-I">> is "-I",
\* <<"-I", "a">> is "-Ia", <<"a">> is "a".  No name of flag_with_args is a
\* prefix of another, so the order in which the set is searched is
\* immaterial.
flag_with_args == {"-I", "-isystem", "-L", "-l", "-D", "-U", "-F", "-framework"}

FlagUniverse ==
  {<<"-I">>, <<"a">>, <<"b">>, <<"-I", "a">>, <<"-I", "b">>, <<"-D", "X">>, <<"-L">>,
   <<"-iquote">>}

\* Scenario 6 of the specification.
ScenarioFlags ==
  <<<<"-I">>, <<"a">>, <<"-I", "a">>, <<"-I">>, <<"b">>, <<"-D", "X">>, <<"-D", "X">>>>

FlagLists == UNION {[1..n -> FlagUniverse] : n \in 1..MaxFlags} \cup {ScenarioFlags}

\* The flag that takes an argument and that the token is or starts with,
\* "" if there is none.
matched_flag(flag) == IF Head(flag) \in flag_with_args THEN Head(flag) ELSE ""

\* A combined form that is taken for its own argument.
arg_of_whole(flag) == flag

\* flag[len(matched_flag):]
arg_of(flag) == Tail(flag)

seen_args(seen, m) == IF m \in DOMAIN seen THEN seen[m] ELSE {}

in_list(x, l) == \E k \in 1..Len(l) : l[k] = x

\* One turn of the while loop of deduplicate_compiler_flags.
dedup_step(flags, i, deduplicated, seen) ==
  LET flag == flags[i + 1]
      m == matched_flag(flag)
  IN IF m # "" /\ Len(flag) = 1 /\ i + 1 < Len(flags)
     THEN \* separate form: the argument is the next token
          [i |-> i + 2,
           deduplicated |-> IF flags[i + 2] \in seen_args(seen, m) THEN deduplicated
                            ELSE deduplicated \o <<flag, flags[i + 2]>>,
           seen |-> MapPut(seen, m, seen_args(seen, m) \cup {flags[i + 2]})]
     ELSE IF m # ""
     THEN \* combined form, or the separate form as the last token
          [i |-> i + 1,
           deduplicated |-> IF arg_of(flag) \in seen_args(seen, m) THEN deduplicated
                            ELSE Append(deduplicated, flag),
           seen |-> MapPut(seen, m, seen_args(seen, m) \cup {arg_of(flag)})]
     ELSE \* regular flag
          [i |-> i + 1,
           deduplicated |-> IF in_list(flag, deduplicated) THEN deduplicated
                            ELSE Append(deduplicated, flag),
           seen |-> seen]

FlagsInit ==
  /\ CacheInit /\ NoLock /\ NoMem /\ NoDisk /\ NoAnalyze /\ NoSource /\ NoPkg /\ NoEval /\ NoChain /\ NoDeps /\ NoHunter /\ NoExpand /\ NoHash
  /\ fl_flags \in FlagLists
  /\ fl_i = 0
  /\ fl_deduplicated = <<>>
  /\ fl_seen_flag_args = EmptyMap
  /\ fl_pc = "loop"

DedupStep ==
  /\ fl_pc = "loop"
  /\ fl_i < Len(fl_flags)
  /\ \E n \in {dedup_step(fl_flags, fl_i, fl_deduplicated, fl_seen_flag_args)} :
       /\ fl_i' = n.i
       /\ fl_deduplicated' = n.deduplicated
       /\ fl_seen_flag_args' = n.seen
  /\ UNCHANGED <<fl_flags, fl_pc>>
  /\ UNCHANGED <<cacheVars, clearVars, evalVars, chainVars, depsVars, hunterVars, expandVars, hashVars, pkgVars, sourceVars, analyzeVars, diskVars, memVars, lockVars>>

\* return deduplicated
DedupReturn ==
  /\ fl_pc = "loop"
  /\ fl_i >= Len(fl_flags)
  /\ fl_pc' = "done"
  /\ UNCHANGED <<fl_flags, fl_i, fl_deduplicated, fl_seen_flag_args>>
  /\ UNCHANGED <<cacheVars, clearVars, evalVars, chainVars, depsVars, hunterVars, expandVars, hashVars, pkgVars, sourceVars, analyzeVars, diskVars, memVars, lockVars>>

FlagsNext == DedupStep \/ DedupReturn

SpecFlags == FlagsInit /\ [][FlagsNext]_vars

\* The entries of a flag list: a flag of flag_with_args with its argument,
\* in either form, is one entry with the key <<flag, argument>>; any other
\* token is an entry of its own.
RECURSIVE flag_entries(_)
flag_entries(flags) ==
  IF flags = <<>> THEN <<>>
  ELSE IF matched_flag(Head(flags)) # "" /\ Len(Head(flags)) = 1 /\ Len(flags) >= 2
       THEN <<[key |-> <<Head(flags)[1], flags[2]>>, tokens |-> <<flags[1], flags[2]>>]>>
              \o flag_entries(SubSeq(flags, 3, Len(flags)))
       ELSE IF matched_flag(Head(flags)) # ""
       THEN <<[key |-> <<Head(flags)[1], Tail(Head(flags))>>, tokens |-> <<flags[1]>>]>>
              \o flag_entries(Tail(flags))
       ELSE <<[key |-> <<"", Head(flags)>>, tokens |-> <<flags[1]>>]>>
              \o flag_entries(Tail(flags))

\* The entries whose key does not occur earlier in the list.
first_occurrences(es) ==
  SelectSeq([k \in 1..Len(es) |-> [e |-> es[k], first |-> \A j \in 1..(k - 1) : es[j].key # es[k].key]],
            LAMBDA x : x.first)

RECURSIVE entry_tokens(_)
entry_tokens(xs) ==
  IF xs = <<>> THEN <<>> ELSE Head(xs).e.tokens \o entry_tokens(Tail(xs))

takes_argument(x) == x.e.key[1] # ""

\* C24: the emitted list holds each entry (a flag with its argument, or a
\* single flag) once and is the input with every entry after the first of
\* its kind removed: a subsequence in which every distinct entry stays at
\* the place of its first occurrence.
C24_FirstOccurrencesKept ==
  fl_pc = "done" =>
    fl_deduplicated = entry_tokens(first_occurrences(flag_entries(fl_flags)))

\* The part of C24 that holds: the emitted list has no entry twice.
C24_NoEntryTwice ==
  fl_pc = "done" =>
    \A j \in 1..Len(flag_entries(fl_deduplicated)) :
      \A k \in 1..Len(flag_entries(fl_deduplicated)) :
        flag_entries(fl_deduplicated)[j].key = flag_entries(fl_deduplicated)[k].key => j = k

\* C25: for the flags that take an argument the separate and the combined
\* form of one flag and argument are the same entry: the emitted list holds
\* the first-seen form of each such entry of the input, flag and argument
\* together and in the order of the input, and no other.
C25_PairsAreOneEntry ==
  fl_pc = "done" =>
    entry_tokens(SelectSeq(first_occurrences(flag_entries(fl_deduplicated)), takes_argument))
      = entry_tokens(SelectSeq(first_occurrences(flag_entries(fl_flags)), takes_argument))
    /\ Len(first_occurrences(flag_entries(fl_deduplicated))) = Len(flag_entries(fl_deduplicated))

\* Scenario 6: [-I, a, -Ia, -I, b, -DX, -DX] gives [-I, a, -I, b, -DX].
C25_Witness ==
  /\ fl_pc = "done"
  /\ fl_flags = ScenarioFlags
  /\ fl_deduplicated = <<<<"-I">>, <<"a">>, <<"-I">>, <<"b">>, <<"-D", "X">>>>

\* ------------------------------------------------------------------------
\* PKG-CONFIG magic flags (MagicFlagsBase._handle_pkg_config)
\* ------------------------------------------------------------------------
\* Most packages named by one PKG-CONFIG flag.
MaxPkgs == 2
\* Longest generated output of pkg-config --cflags, in characters.
MaxChars == 2

\* Text is a sequence of characters.
Chars == {"-", "I", "/", " ", "D", "a"}

isystem == <<"-", "i", "s", "y", "s", "t", "e", "m">>

\* Outputs of pkg-config --cflags: "-I/a -Da", "-I a", "-Ia -Da",
\* "-Da-I", "-I/a-I/a", "-Da -I/a" and every short text.
CflagsOutputs ==
  UNION {[1..n -> Chars] : n \in 0..MaxChars}
    \cup {<<"-", "I", "/", "a", " ", "-", "D", "a">>,
          <<"-", "I", " ", "a">>,
          <<"-", "I", "a", " ", "-", "D", "a">>,
          <<"-", "D", "a", "-", "I">>,
          <<"-", "I", "/", "a", "-", "I", "/", "a">>,
          <<"-", "D", "a", " ", "-", "I", "/", "a">>}

\* Outputs of pkg-config --libs.
LibsOutputs == {<<"-", "l", "a">>}

\* The pattern -I(?=\s|/|$) matches at position p (1-based) of the text.
pattern_matches(text, p) ==
  /\ p + 1 <= Len(text)
  /\ text[p] = "-"
  /\ text[p + 1] = "I"
  /\ (p + 1 = Len(text) \/ text[p + 2] \in {" ", "/"})

\* A pattern that also wants the -I to begin a token.
pattern_matches_at_token_start(text, p) ==
  /\ p + 1 <= Len(text)
  /\ text[p] = "-"
  /\ text[p + 1] = "I"
  /\ (p + 1 = Len(text) \/ text[p + 2] \in {" ", "/"})
  /\ (p = 1 \/ text[p - 1] = " ")

\* re.sub(r'-I(?=\s|/|$)', '-isystem', text), from position p on.
RECURSIVE re_sub_from(_, _)
re_sub_from(text, p) ==
  IF p > Len(text) THEN <<>>
  ELSE IF pattern_matches(text, p)
       THEN isystem \o re_sub_from(text, p + 2)
       ELSE <<text[p]>> \o re_sub_from(text, p + 1)

re_sub(text) == re_sub_from(text, 1)

flags_of_key(fff, key) == IF key \in DOMAIN fff THEN fff[key] ELSE <<>>

PkgInit ==
  /\ CacheInit /\ NoLock /\ NoMem /\ NoDisk /\ NoAnalyze /\ NoSource /\ NoFlags /\ NoEval /\ NoChain /\ NoDeps /\ NoHunter /\ NoExpand /\ NoHash
  /\ pk_pending \in 1..MaxPkgs
  /\ pk_raw = <<>>
  /\ pk_flagsforfilename = EmptyMap
  /\ pk_pc = "loop"

\* One turn of "for pkg in flag.split()": pkg-config prints cflags_raw and
\* libs; the rewritten cflags go to CPPFLAGS, CFLAGS and CXXFLAGS, the libs
\* to LDFLAGS.
QueryPackage(cflags_raw, libs) ==
  /\ pk_pc = "loop"
  /\ pk_pending > 0
  /\ pk_pending' = pk_pending - 1
  /\ pk_raw' = Append(pk_raw, cflags_raw)
  /\ pk_flagsforfilename' =
       [key \in {"CPPFLAGS", "CFLAGS", "CXXFLAGS", "LDFLAGS"} |->
          Append(flags_of_key(pk_flagsforfilename, key),
                 IF key = "LDFLAGS" THEN libs ELSE re_sub(cflags_raw))]
  /\ UNCHANGED pk_pc
  /\ UNCHANGED <<cacheVars, clearVars, evalVars, chainVars, depsVars, hunterVars, expandVars, hashVars, flagVars, sourceVars, analyzeVars, diskVars, memVars, lockVars>>

\* return flagsforfilename
PkgReturn ==
  /\ pk_pc = "loop"
  /\ pk_pending = 0
  /\ pk_pc' = "done"
  /\ UNCHANGED <<pk_pending, pk_raw, pk_flagsforfilename>>
  /\ UNCHANGED <<cacheVars, clearVars, evalVars, chainVars, depsVars, hunterVars, expandVars, hashVars, flagVars, sourceVars, analyzeVars, diskVars, memVars, lockVars>>

PkgNext ==
  \/ \E cflags_raw \in CflagsOutputs, libs \in LibsOutputs : QueryPackage(cflags_raw, libs)
  \/ PkgReturn

SpecPkg == PkgInit /\ [][PkgNext]_vars

\* A token begins at position p of the text.
token_start(text, p) == p = 1 \/ text[p - 1] = " "

\* The text with the -I that begins a token (-I<path>, or -I before a
\* separate path) replaced by -isystem and everything else as it is.
RECURSIVE include_flags_rewritten_from(_, _)
include_flags_rewritten_from(text, p) ==
  IF p > Len(text) THEN <<>>
  ELSE IF /\ token_start(text, p)
          /\ p + 1 <= Len(text)
          /\ text[p] = "-"
          /\ text[p + 1] = "I"
       THEN isystem \o include_flags_rewritten_from(text, p + 2)
       ELSE <<text[p]>> \o include_flags_rewritten_from(text, p + 1)

include_flags_rewritten(text) == include_flags_rewritten_from(text, 1)

\* C26: what is appended to CPPFLAGS, CFLAGS and CXXFLAGS for a package is
\* the output of pkg-config --cflags with every include-path flag
\* (-I<path> or -I <path>) turned into its -isystem form and every other
\* token unchanged.
C26_IncludeFlagsBecomeIsystem ==
  \A key \in {"CPPFLAGS", "CFLAGS", "CXXFLAGS"} :
    \A k \in 1..Len(pk_raw) :
      pk_flagsforfilename[key][k] = include_flags_rewritten(pk_raw[k])

\* The part of C26 that holds: an output in which -I occurs only at the
\* beginning of a token and before "/", a blank or the end is rewritten as
\* claimed.
plain_include_flags(text) ==
  \A p \in 1..Len(text) :
    (p + 1 <= Len(text) /\ text[p] = "-" /\ text[p + 1] = "I") =>
      pattern_matches_at_token_start(text, p)

C26_AbsolutePathsBecomeIsystem ==
  \A key \in {"CPPFLAGS", "CFLAGS", "CXXFLAGS"} :
    \A k \in 1..Len(pk_raw) :
      plain_include_flags(pk_raw[k]) =>
        pk_flagsforfilename[key][k] = include_flags_rewritten(pk_raw[k])

\* ------------------------------------------------------------------------
\* SOURCE magic flags (MagicFlagsBase._parse and _handle_source)
\* ------------------------------------------------------------------------
\* Most files in a text, most SOURCE flags in one file.
MaxSections == 2
MaxSources == 2

SourceDirs == {"a", "b"}
SourceNames == {"x.cpp", "y.cpp"}

\* The part of a text that comes from one file: the line '# 1 "<dir>/<file>"'
\* that readfile puts before it and the values of its //#SOURCE= flags.
Sections ==
  {[dir |-> d, sources |-> v] :
     d \in SourceDirs, v \in UNION {[1..n -> SourceNames] : n \in 0..MaxSources}}

SourceTexts == UNION {[1..n -> Sections] : n \in 1..MaxSections}

\* The magic flags of the text in the order finditer gives them, each with
\* the number of the section it stands in.
RECURSIVE source_matches_from(_, _)
source_matches_from(text, s) ==
  IF s > Len(text) THEN <<>>
  ELSE [k \in 1..Len(text[s].sources) |-> [section |-> s, flag |-> text[s].sources[k]]]
         \o source_matches_from(text, s + 1)

source_matches(text) == source_matches_from(text, 1)

\* The section whose header line stands before this flag.
marker_of_own_file(text, m) == m.section

\* re.search(r'# \d.* "(/\S*?)".*?//#SOURCE\s*=\s*' + flag, text, DOTALL):
\* the search starts at the first header line and ".*" is greedy, so
\* group(1) is the last header line that has a //#SOURCE=flag after it:
\* the header of the last section that holds the flag.
marker_found(text, m) ==
  CHOOSE s \in 1..Len(text) :
    /\ \E k \in 1..Len(text[s].sources) : text[s].sources[k] = m.flag
    /\ \A t \in (s + 1)..Len(text) :
         \A k \in 1..Len(text[t].sources) : text[t].sources[k] # m.flag

\* realpath(join(dirname(result.group(1)), flag.strip()))
newflag_of(text, m) == <<text[marker_found(text, m)].dir, m.flag>>

\* wrappedos.isfile
isfile(files, path) == path \in files

\* ordered_unique
RECURSIVE ordered_unique(_)
ordered_unique(l) ==
  IF l = <<>> THEN <<>>
  ELSE <<Head(l)>> \o ordered_unique(SelectSeq(Tail(l), LAMBDA x : x # Head(l)))

SourceInit ==
  /\ CacheInit /\ NoLock /\ NoMem /\ NoDisk /\ NoAnalyze /\ NoPkg /\ NoFlags /\ NoEval /\ NoChain /\ NoDeps /\ NoHunter /\ NoExpand /\ NoHash
  /\ sp_text \in SourceTexts
  /\ sp_files \in SUBSET (SourceDirs \X SourceNames)
  /\ sp_k = 0
  /\ sp_flagsforfilename = EmptyMap
  /\ sp_pc = "loop"

\* One turn of the loop over magicpattern.finditer(text) for a SOURCE flag
\* whose file exists: the adjusted flag is appended.
HandleSource ==
  /\ sp_pc = "loop"
  /\ sp_k < Len(source_matches(sp_text))
  /\ isfile(sp_files, newflag_of(sp_text, source_matches(sp_text)[sp_k + 1]))
  /\ sp_flagsforfilename' =
       MapPut(sp_flagsforfilename, "SOURCE",
              Append(flags_of_key(sp_flagsforfilename, "SOURCE"),
                     newflag_of(sp_text, source_matches(sp_text)[sp_k + 1])))
  /\ sp_k' = sp_k + 1
  /\ UNCHANGED <<sp_text, sp_files, sp_pc>>
  /\ UNCHANGED <<cacheVars, clearVars, evalVars, chainVars, depsVars, hunterVars, expandVars, hashVars, flagVars, pkgVars, analyzeVars, diskVars, memVars, lockVars>>

\* The file does not exist: _handle_source raises IOError, which _parse
\* does not catch.
SourceMissing ==
  /\ sp_pc = "loop"
  /\ sp_k < Len(source_matches(sp_text))
  /\ ~isfile(sp_files, newflag_of(sp_text, source_matches(sp_text)[sp_k + 1]))
  /\ sp_pc' = "raised"
  /\ UNCHANGED <<sp_text, sp_files, sp_k, sp_flagsforfilename>>
  /\ UNCHANGED <<cacheVars, clearVars, evalVars, chainVars, depsVars, hunterVars, expandVars, hashVars, flagVars, pkgVars, analyzeVars, diskVars, memVars, lockVars>>

\* The loop is over: every list is deduplicated and returned.
ParseReturn ==
  /\ sp_pc = "loop"
  /\ sp_k >= Len(source_matches(sp_text))
  /\ sp_flagsforfilename' =
       [key \in DOMAIN sp_flagsforfilename |-> ordered_unique(sp_flagsforfilename[key])]
  /\ sp_pc' = "returned"
  /\ UNCHANGED <<sp_text, sp_files, sp_k>>
  /\ UNCHANGED <<cacheVars, clearVars, evalVars, chainVars, depsVars, hunterVars, expandVars, hashVars, flagVars, pkgVars, analyzeVars, diskVars, memVars, lockVars>>

SourceNext == HandleSource \/ SourceMissing \/ ParseReturn

SpecSource == SourceInit /\ [][SourceNext]_vars

\* The file a SOURCE flag names, relative to the directory of the file
\* that holds the flag.
source_target(text, m) == <<text[marker_of_own_file(text, m)].dir, m.flag>>

\* C27: when a //#SOURCE= flag names, relative to the directory of the
\* file that holds it, a file that does not exist, _parse does not return
\* a flag result: it ends with the error.
C27_MissingSourceIsFatal ==
  (\E k \in 1..Len(source_matches(sp_text)) :
     ~isfile(sp_files, source_target(sp_text, source_matches(sp_text)[k])))
    => sp_pc # "returned"

\* The part of C27 that holds: when no value is the value of SOURCE flags in
\* two files of the text, a missing file ends _parse with the error.
one_file_per_value(text) ==
  \A j \in 1..Len(source_matches(text)) : \A k \in 1..Len(source_matches(text)) :
    source_matches(text)[j].flag = source_matches(text)[k].flag =>
      source_matches(text)[j].section = source_matches(text)[k].section

C27_MissingSourceIsFatalForOneFile ==
  (/\ one_file_per_value(sp_text)
   /\ \E k \in 1..Len(source_matches(sp_text)) :
        ~isfile(sp_files, source_target(sp_text, source_matches(sp_text)[k])))
    => sp_pc # "returned"

\* ------------------------------------------------------------------------
\* Claims about retries
\* ------------------------------------------------------------------------
\* C29: nothing is attempted twice: a header-dependency request (process)
\* runs its traversal _process_impl at most once.
C29_TraversalRunsOnce == hd_mode = "process" => hd_attempt = 1

\* ------------------------------------------------------------------------
\* File analysis and the content-hash registry
\* ------------------------------------------------------------------------
MaxAnalyses == 3

\* The absolute paths analyze is given (FileAnalyzer.__init__ stores
\* realpath(filepath)), and what the file system may hold at a path.
AnalyzePaths == {"/w/a.hpp", "/w/b.hpp"}
FileStates == {"missing", "unreadable", "empty", "text"}

\* os.path.abspath and os.path.relpath with the working directory /w.
abspath(path) ==
  CASE path = "a.hpp" -> "/w/a.hpp"
    [] path = "b.hpp" -> "/w/b.hpp"
    [] OTHER -> path

relpath(path) ==
  CASE path = "/w/a.hpp" -> "a.hpp"
    [] path = "/w/b.hpp" -> "b.hpp"
    [] OTHER -> path

\* str(path) of the keys of get_complete_working_directory_hashes(), which
\* are absolute or relative to the working directory.
key_of(style, path) == IF style = "abs" THEN abspath(path) ELSE relpath(path)

\* The git blob hash of a file's content.
blob_hash(state) == IF state = "empty" THEN "e69de29" ELSE "8baef1b"

NoneHash == "None"

\* GlobalHashRegistry.get_file_hash: None when the registry is not loaded,
\* else the entry of the exact, the absolute or the relative path.
registry_get_file_hash(is_loaded, hash_map, filepath) ==
  IF ~is_loaded THEN NoneHash
  ELSE IF filepath \in DOMAIN hash_map THEN hash_map[filepath]
  ELSE IF abspath(filepath) \in DOMAIN hash_map THEN hash_map[abspath(filepath)]
  ELSE IF relpath(filepath) \in DOMAIN hash_map THEN hash_map[relpath(filepath)]
  ELSE NoneHash

\* get_file_hash(path) of the registry module: the content hash or absent.
get_file_hash(filepath) == registry_get_file_hash(rg_is_loaded, rg_hash_map, filepath)

\* The empty FileAnalysisResult (content_hash keeps its default "").
EmptyResult ==
  [lines |-> 0, bytes_analyzed |-> 0, was_truncated |-> FALSE, content_hash |-> ""]

\* read_file_traditional with max_size = 0: the text and its size, or
\* ("", 0, False) on any error of getsize, open or read.
read_file_traditional(state) ==
  IF state \in {"missing", "unreadable"}
  THEN [text |-> "", bytes_analyzed |-> 0, was_truncated |-> FALSE]
  ELSE [text |-> IF state = "text" THEN "x" ELSE "",
        bytes_analyzed |-> IF state = "text" THEN 1 ELSE 0,
        was_truncated |-> FALSE]

\* read_file_mmap with max_size = 0: an empty file is answered without
\* mapping, any failure of getsize, open or mmap goes to
\* read_file_traditional.
read_file_mmap(state) ==
  IF state \in {"missing", "unreadable"} THEN read_file_traditional(state)
  ELSE IF state = "empty" THEN [text |-> "", bytes_analyzed |-> 0, was_truncated |-> FALSE]
  ELSE [text |-> "x", bytes_analyzed |-> 1, was_truncated |-> FALSE]

\* text.split('\n') gives one line for a text without a newline.
split_lines(text) == 1

\* LegacyFileAnalyzer.analyze with _cached_analyze: the empty result when
\* getmtime raises OSError or the path does not exist, else the analysis of
\* what was read, with the content hash the registry gives.
legacy_analyze(state, filepath, content_hash_of_registry) ==
  IF state = "missing" THEN EmptyResult
  ELSE LET r == read_file_mmap(state)
       IN [lines |-> split_lines(r.text),
           bytes_analyzed |-> r.bytes_analyzed,
           was_truncated |-> r.was_truncated,
           content_hash |-> content_hash_of_registry]

\* "not content_hash" is true for None and for the empty string.
no_hash(h) == h \in {NoneHash, ""}

\* MemoryCache._make_key and MemoryCache.get.
memory_cache_key(filepath, h) == <<filepath, h>>
memory_cache_has(cache, filepath, h) == memory_cache_key(filepath, h) \in DOMAIN cache

AnalyzeInit ==
  /\ CacheInit /\ NoLock /\ NoMem /\ NoDisk /\ NoSource /\ NoPkg /\ NoFlags /\ NoEval /\ NoChain /\ NoDeps /\ NoHunter /\ NoExpand /\ NoHash
  /\ fs_state \in [AnalyzePaths -> FileStates]
  /\ rg_is_loaded = FALSE
  /\ rg_hash_map = EmptyMap
  /\ an_cache = EmptyMap
  /\ an_last = [op |-> "none"]
  /\ an_calls = 0

\* GlobalHashRegistry.initialize(use_git_hashes=True): the hashes of the
\* files the enumeration covers, or an empty map when the enumeration
\* raises; nothing when the registry is already loaded.
RegistryInitialize(enumerated, style, loads) ==
  /\ ~rg_is_loaded
  /\ rg_hash_map' = IF loads
                    THEN [k \in {key_of(style, f) : f \in enumerated} |-> blob_hash(fs_state[abspath(k)])]
                    ELSE EmptyMap
  /\ rg_is_loaded' = TRUE
  /\ UNCHANGED <<fs_state, an_cache, an_last, an_calls>>
  /\ UNCHANGED <<cacheVars, evalVars, chainVars, depsVars, hunterVars, expandVars, hashVars, clearVars, flagVars, pkgVars, sourceVars, diskVars, memVars, lockVars>>

\* GlobalHashRegistry.clear.
RegistryClear ==
  /\ rg_is_loaded \/ rg_hash_map # EmptyMap
  /\ rg_hash_map' = EmptyMap
  /\ rg_is_loaded' = FALSE
  /\ UNCHANGED <<fs_state, an_cache, an_last, an_calls>>
  /\ UNCHANGED <<cacheVars, evalVars, chainVars, depsVars, hunterVars, expandVars, hashVars, clearVars, flagVars, pkgVars, sourceVars, diskVars, memVars, lockVars>>

\* A file is removed from the working directory after startup.
Unlink(filepath) ==
  /\ fs_state[filepath] # "missing"
  /\ fs_state' = [fs_state EXCEPT ![filepath] = "missing"]
  /\ UNCHANGED <<rg_is_loaded, rg_hash_map, an_cache, an_last, an_calls>>
  /\ UNCHANGED <<cacheVars, evalVars, chainVars, depsVars, hunterVars, expandVars, hashVars, clearVars, flagVars, pkgVars, sourceVars, diskVars, memVars, lockVars>>

\* CachedFileAnalyzer.analyze: RuntimeError when the registry gives no
\* content hash; else the cached result, or the result of the wrapped
\* analyzer, stored when bytes_analyzed > 0.
CachedAnalyze(filepath) ==
  /\ an_calls < MaxAnalyses
  /\ an_calls' = an_calls + 1
  /\ LET h == get_file_hash(filepath)
         hit == memory_cache_has(an_cache, filepath, h)
         result == legacy_analyze(fs_state[filepath], filepath, h)
     IN IF no_hash(h)
        THEN /\ an_last' = [op |-> "cached", path |-> filepath, file |-> fs_state[filepath],
                            hashed |-> FALSE, outcome |-> "RuntimeError",
                            result |-> EmptyResult, analyzed |-> FALSE, stored |-> FALSE]
             /\ UNCHANGED an_cache
        ELSE IF hit
        THEN /\ an_last' = [op |-> "cached", path |-> filepath, file |-> fs_state[filepath],
                            hashed |-> TRUE, outcome |-> "result",
                            result |-> an_cache[memory_cache_key(filepath, h)],
                            analyzed |-> FALSE, stored |-> FALSE]
             /\ UNCHANGED an_cache
        ELSE /\ an_last' = [op |-> "cached", path |-> filepath, file |-> fs_state[filepath],
                            hashed |-> TRUE, outcome |-> "result", result |-> result,
                            analyzed |-> TRUE, stored |-> result.bytes_analyzed > 0]
             /\ an_cache' = IF result.bytes_analyzed > 0
                            THEN MapPut(an_cache, memory_cache_key(filepath, h), result)
                            ELSE an_cache
  /\ UNCHANGED <<fs_state, rg_is_loaded, rg_hash_map>>
  /\ UNCHANGED <<cacheVars, evalVars, chainVars, depsVars, hunterVars, expandVars, hashVars, clearVars, flagVars, pkgVars, sourceVars, diskVars, memVars, lockVars>>

\* analyze of the analyzer create_file_analyzer returns when it is given
\* neither cache nor cache_type: LegacyFileAnalyzer.analyze itself.
LegacyAnalyze(filepath) ==
  /\ an_calls < MaxAnalyses
  /\ an_calls' = an_calls + 1
  /\ LET h == get_file_hash(filepath)
     IN an_last' = [op |-> "bare", path |-> filepath, file |-> fs_state[filepath],
                    hashed |-> ~no_hash(h), outcome |-> "result",
                    result |-> legacy_analyze(fs_state[filepath], filepath, h),
                    analyzed |-> TRUE, stored |-> FALSE]
  /\ UNCHANGED <<fs_state, rg_is_loaded, rg_hash_map, an_cache>>
  /\ UNCHANGED <<cacheVars, evalVars, chainVars, depsVars, hunterVars, expandVars, hashVars, clearVars, flagVars, pkgVars, sourceVars, diskVars, memVars, lockVars>>

AnalyzeNext ==
  \/ \E enumerated \in SUBSET {f \in AnalyzePaths : fs_state[f] \in {"empty", "text"}},
        style \in {"abs", "rel"}, loads \in BOOLEAN :
       RegistryInitialize(enumerated, style, loads)
  \/ RegistryClear
  \/ \E filepath \in AnalyzePaths : Unlink(filepath)
  \/ \E filepath \in AnalyzePaths : CachedAnalyze(filepath)
  \/ \E filepath \in AnalyzePaths : LegacyAnalyze(filepath)

SpecAnalyze == AnalyzeInit /\ [][AnalyzeNext]_vars

\* C28: analyzing a file whose path has no entry in the content-hash
\* registry (never initialized, failed to load, cleared, or not enumerated)
\* always ends in a fatal error: the file is not analyzed, no result is
\* returned and nothing is cached without a content hash.
C28_RegistryMissIsFatal ==
  /\ (an_last.op # "none" /\ ~an_last.hashed) =>
       (an_last.outcome = "RuntimeError" /\ ~an_last.analyzed)
  /\ \A key \in DOMAIN an_cache : ~no_hash(key[2]) /\ ~no_hash(an_cache[key].content_hash)

\* The same for an analyzer that was created with a cache: it is
\* CachedFileAnalyzer.analyze that raises on a registry miss.
C28_CachedAnalyzerMissIsFatal ==
  /\ (an_last.op = "cached" /\ ~an_last.hashed) =>
       (an_last.outcome = "RuntimeError" /\ ~an_last.analyzed /\ ~an_last.stored)
  /\ \A key \in DOMAIN an_cache : ~no_hash(key[2]) /\ ~no_hash(an_cache[key].content_hash)

\* C30: analyze fails with an error whenever the path does not exist or
\* cannot be read; it never returns an analysis result for such a file.
C30_MissingFileFails ==
  (an_last.op # "none" /\ an_last.file \in {"missing", "unreadable"}) =>
    an_last.outcome # "result"

\* ------------------------------------------------------------------------
\* The disk cache of analysis results and its versioned format
\* ------------------------------------------------------------------------
MaxDiskOps == 3

DiskPaths == {"/w/a.hpp", "/w/b.hpp"}
DiskHashes == {"e69de29", "8baef1b"}
DiskResults == {"r1", "r2"}

\* _compute_dataclass_hash(FileAnalysisResult): the short hash of the
\* current result schema.
CACHE_FORMAT_VERSION == "2b1bdb858ca9"

\* asdict(result): the dictionary of the fields of FileAnalysisResult. The
\* dataclass has no field "text"; its required position and size fields are
\* present with their types.
asdict(result) ==
  [text |-> "absent", required |-> "ok", schema |-> "current", of |-> result]

\* FileAnalyzerCache._serialize_result: the pickle of version and data.
serialize_result(result) ==
  [pickle |-> "dict", version |-> CACHE_FORMAT_VERSION, data |-> asdict(result)]

\* Dictionaries a cache file may hold as its data: that of a current
\* result, that of a result of the schema with "text", and ones that lack
\* required fields or hold wrongly typed ones.
DataDicts ==
  {asdict("r1"),
   [text |-> "str", required |-> "ok", schema |-> "other", of |-> "r1"],
   [text |-> "str", required |-> "missing", schema |-> "other", of |-> "r1"],
   [text |-> "str", required |-> "wrongtype", schema |-> "other", of |-> "r1"],
   [text |-> "wrongtype", required |-> "ok", schema |-> "other", of |-> "r1"]}

NotADict == [text |-> "absent", required |-> "missing", schema |-> "none", of |-> "none"]

\* Bytes a cache file may hold: a pickled versioned dictionary (of this or
\* another format version, its data a dictionary or not), a pickled
\* dictionary without version, another pickled value, bytes that are no
\* pickle, a pickle that ends early, a pickle that names an unknown class.
CachedBytes ==
  {[pickle |-> "dict", version |-> v, data |-> d] :
      v \in {CACHE_FORMAT_VERSION, "999.999"}, d \in DataDicts \cup {NotADict}}
  \cup {[pickle |-> "legacy", version |-> "none", data |-> d] : d \in DataDicts}
  \cup {[pickle |-> k, version |-> "none", data |-> NotADict] :
          k \in {"list", "garbage", "truncated", "unknown_class"}}

\* The exception pickle.loads raises on the bytes, "none" when it returns.
pickle_loads_raises(bytes) ==
  CASE bytes.pickle = "garbage" -> "UnpicklingError"
    [] bytes.pickle = "truncated" -> "EOFError"
    [] bytes.pickle = "unknown_class" -> "ModuleNotFoundError"
    [] OTHER -> "none"

\* FileAnalyzerCache._validate_and_construct: None when a required field is
\* missing or wrongly typed; else FileAnalysisResult(**data), whose
\* TypeError for a key that is no field of the dataclass gives None too.
validate_and_construct(data) ==
  IF data.text = "absent" \/ data.text = "wrongtype" THEN "None"
  ELSE IF data.required # "ok" THEN "None"
  ELSE IF data.text = "str" THEN "None"
  ELSE data.of

\* The exceptions _deserialize_result catches.
deserialize_catches(exc) == exc \in {"UnpicklingError", "TypeError", "ValueError", "KeyError"}

\* FileAnalyzerCache._deserialize_result: a result, "None", or the name of
\* the exception that leaves it.
deserialize_result(bytes) ==
  LET exc == pickle_loads_raises(bytes)
  IN IF exc # "none" THEN (IF deserialize_catches(exc) THEN "None" ELSE exc)
     ELSE IF bytes.pickle = "legacy" THEN validate_and_construct(bytes.data)
     ELSE IF bytes.pickle # "dict" THEN "None"
     ELSE IF bytes.version # CACHE_FORMAT_VERSION THEN "None"
     ELSE IF bytes.data = NotADict THEN "None"
     ELSE validate_and_construct(bytes.data)

IsException(outcome) == outcome \in {"EOFError", "ModuleNotFoundError", "UnpicklingError"}

\* hashlib.md5(filepath.encode()).hexdigest()
md5_hexdigest(filepath) == IF filepath = "/w/a.hpp" THEN "0f3a" ELSE "9c1e"

\* DiskCache._get_cache_path: <shard>/<md5 of path>_<content hash>.pkl
get_cache_path(filepath, h) == <<md5_hexdigest(filepath), h>>

DiskInit ==
  /\ CacheInit /\ NoLock /\ NoMem /\ NoAnalyze /\ NoSource /\ NoPkg /\ NoFlags /\ NoEval /\ NoChain /\ NoDeps /\ NoHunter /\ NoExpand /\ NoHash
  /\ dk_files = EmptyMap
  /\ dk_written = EmptyMap
  /\ dk_last = [op |-> "none"]
  /\ dk_ops = 0

MapDel(m, key) == [x \in (DOMAIN m) \ {key} |-> m[x]]

\* DiskCache.put: the serialized result replaces the cache file.
DiskPut(filepath, h, result) ==
  /\ dk_ops < MaxDiskOps
  /\ dk_ops' = dk_ops + 1
  /\ dk_files' = MapPut(dk_files, get_cache_path(filepath, h), serialize_result(result))
  /\ dk_written' = MapPut(dk_written, get_cache_path(filepath, h), result)
  /\ dk_last' = [op |-> "put", path |-> filepath, hash |-> h, outcome |-> "None",
                 bytes |-> serialize_result(result), present |-> TRUE, intact |-> TRUE,
                 put |-> result]
  /\ UNCHANGED <<cacheVars, evalVars, chainVars, depsVars, hunterVars, expandVars, hashVars, clearVars, flagVars, pkgVars, sourceVars, analyzeVars, memVars, lockVars>>

\* DiskCache.get: None without a cache file; else the deserialized result,
\* the file being removed when that is None; an exception of
\* _deserialize_result other than IOError and OSError leaves get.
DiskGet(filepath, h) ==
  /\ dk_ops < MaxDiskOps
  /\ dk_ops' = dk_ops + 1
  /\ LET cache_path == get_cache_path(filepath, h)
         present == cache_path \in DOMAIN dk_files
         bytes == IF present THEN dk_files[cache_path] ELSE [pickle |-> "absent"]
         result == IF present THEN deserialize_result(bytes) ELSE "None"
     IN /\ dk_last' = [op |-> "get", path |-> filepath, hash |-> h, outcome |-> result,
                       bytes |-> bytes, present |-> present,
                       intact |-> cache_path \in DOMAIN dk_written,
                       put |-> IF cache_path \in DOMAIN dk_written
                               THEN dk_written[cache_path] ELSE "none"]
        /\ dk_files' = IF present /\ result = "None" THEN MapDel(dk_files, cache_path) ELSE dk_files
        /\ dk_written' = IF present /\ result = "None" THEN MapDel(dk_written, cache_path) ELSE dk_written
  /\ UNCHANGED <<cacheVars, evalVars, chainVars, depsVars, hunterVars, expandVars, hashVars, clearVars, flagVars, pkgVars, sourceVars, analyzeVars, memVars, lockVars>>

\* DiskCache.clear() without a path: every cache file is removed.
DiskClear ==
  /\ dk_ops < MaxDiskOps
  /\ dk_ops' = dk_ops + 1
  /\ dk_files' = EmptyMap
  /\ dk_written' = EmptyMap
  /\ dk_last' = [op |-> "clear", path |-> "", hash |-> "", outcome |-> "None",
                 bytes |-> [pickle |-> "absent"], present |-> FALSE, intact |-> FALSE,
                 put |-> "none"]
  /\ UNCHANGED <<cacheVars, evalVars, chainVars, depsVars, hunterVars, expandVars, hashVars, clearVars, flagVars, pkgVars, sourceVars, analyzeVars, memVars, lockVars>>

\* A cache file of the shared directory is written by another version of
\* the tool, or is damaged.
ForeignWrite(filepath, h, bytes) ==
  /\ dk_ops < MaxDiskOps
  /\ dk_files' = MapPut(dk_files, get_cache_path(filepath, h), bytes)
  /\ dk_written' = MapDel(dk_written, get_cache_path(filepath, h))
  /\ dk_last' = [op |-> "foreign", path |-> filepath, hash |-> h, outcome |-> "None",
                 bytes |-> bytes, present |-> TRUE, intact |-> FALSE, put |-> "none"]
  /\ dk_ops' = dk_ops + 1
  /\ UNCHANGED <<cacheVars, evalVars, chainVars, depsVars, hunterVars, expandVars, hashVars, clearVars, flagVars, pkgVars, sourceVars, analyzeVars, memVars, lockVars>>

DiskNext ==
  \/ \E filepath \in DiskPaths, h \in DiskHashes, result \in DiskResults : DiskPut(filepath, h, result)
  \/ \E filepath \in DiskPaths, h \in DiskHashes : DiskGet(filepath, h)
  \/ DiskClear
  \/ \E filepath \in DiskPaths, h \in DiskHashes, bytes \in CachedBytes : ForeignWrite(filepath, h, bytes)

SpecDisk == DiskInit /\ [][DiskNext]_vars

\* Bytes that are not the serialization of a result of the current schema:
\* another format version, no pickle, a pickle cut short, data that is no
\* dictionary, lacks required fields or holds wrongly typed ones.
stale_or_corrupted(bytes) ==
  \/ bytes.pickle \in {"list", "garbage", "truncated", "unknown_class"}
  \/ bytes.pickle = "dict" /\ bytes.version # CACHE_FORMAT_VERSION
  \/ bytes.pickle \in {"dict", "legacy"} /\
       (bytes.data = NotADict \/ bytes.data.required # "ok" \/ bytes.data.text = "wrongtype")

\* C31: cached bytes whose format version differs from the current one, or
\* that are corrupted, lack required fields or hold wrongly typed fields,
\* are a cache miss: get returns None, nothing of the entry is returned and
\* no exception reaches the caller.
C31_StaleBytesAreAMiss ==
  (dk_last.op = "get" /\ dk_last.present /\ stale_or_corrupted(dk_last.bytes)) =>
    dk_last.outcome = "None"

\* The part of it that holds: such bytes are never returned as a result.
C31_StaleBytesNeverReturned ==
  (dk_last.op = "get" /\ dk_last.present /\ stale_or_corrupted(dk_last.bytes)) =>
    dk_last.outcome \notin DiskResults

\* C33: after put(path, hash, r) with no clear in between, get(path, hash)
\* returns a result equal to r, and get never returns what was stored under
\* another path or content hash.
C33_GetReturnsWhatPutStored ==
  (dk_last.op = "get" /\ dk_last.intact) => dk_last.outcome = dk_last.put

\* ------------------------------------------------------------------------
\* The memory cache of analysis results
\* ------------------------------------------------------------------------
MaxMemOps == 5
MaxEntries == 2

\* Paths and content hashes as sequences of lexical parts; a file name may
\* hold a colon.
MemPaths == {<<"a">>, <<"b">>, <<"a", ":", "x">>}
MemHashes == {<<"h1">>, <<"h2">>}
MemResults == {"r1", "r2"}

\* MemoryCache._make_key: f"{filepath}:{content_hash}"
make_key(filepath, h) == filepath \o <<":">> \o h

\* key.startswith(f"{filepath}:")
key_startswith(key, filepath) ==
  /\ Len(key) >= Len(filepath) + 1
  /\ SubSeq(key, 1, Len(filepath) + 1) = filepath \o <<":">>

\* A use that leaves the access order as it is.
touch_never(access_order, key) == access_order

\* The key is removed from the access order and appended at its end.
touch(access_order, key) == SelectSeq(access_order, LAMBDA k : k # key) \o <<key>>

\* The least recently used key of the cache by the record of uses.
least_recently_used(used) ==
  IF DOMAIN used = {} THEN <<>>
  ELSE CHOOSE k \in DOMAIN used : \A j \in DOMAIN used : used[k] <= used[j]

\* The key whose entry was stored first.
first_stored(put_at) ==
  IF DOMAIN put_at = {} THEN <<>>
  ELSE CHOOSE k \in DOMAIN put_at : \A j \in DOMAIN put_at : put_at[k] <= put_at[j]

MemInit ==
  /\ CacheInit /\ NoLock /\ NoDisk /\ NoAnalyze /\ NoSource /\ NoPkg /\ NoFlags /\ NoEval /\ NoChain /\ NoDeps /\ NoHunter /\ NoExpand /\ NoHash
  /\ mc_cache = EmptyMap
  /\ mc_access_order = <<>>
  /\ mc_max_entries \in 1..MaxEntries
  /\ mc_used = EmptyMap
  /\ mc_put_at = EmptyMap
  /\ mc_last = [op |-> "none"]
  /\ mc_ops = 0

\* MemoryCache.get: the entry of the key or None; a found entry makes the
\* key the most recently used one.
MemGet(filepath, h) ==
  /\ mc_ops < MaxMemOps
  /\ mc_ops' = mc_ops + 1
  /\ LET key == make_key(filepath, h)
         found == key \in DOMAIN mc_cache
     IN /\ mc_access_order' = IF found THEN touch(mc_access_order, key) ELSE mc_access_order
        /\ mc_used' = IF found THEN MapPut(mc_used, key, mc_ops + 1) ELSE mc_used
        /\ mc_last' = [op |-> "get", key |-> key, result |-> IF found THEN mc_cache[key] ELSE "None",
                       full_new |-> FALSE, evicted |-> <<>>, lru_before |-> <<>>, first_before |-> <<>>]
  /\ UNCHANGED <<mc_cache, mc_max_entries, mc_put_at>>
  /\ UNCHANGED <<cacheVars, evalVars, chainVars, depsVars, hunterVars, expandVars, hashVars, clearVars, flagVars, pkgVars, sourceVars, analyzeVars, diskVars, lockVars>>

\* MemoryCache.put: when the cache is full and the key is new, the first
\* key of the access order is evicted; the result is stored and the key
\* becomes the most recently used one.
MemPut(filepath, h, result) ==
  /\ mc_ops < MaxMemOps
  /\ mc_ops' = mc_ops + 1
  /\ LET key == make_key(filepath, h)
         full_new == Cardinality(DOMAIN mc_cache) >= mc_max_entries /\ key \notin DOMAIN mc_cache
         evicts == full_new /\ mc_access_order # <<>>
         oldest_key == IF evicts THEN Head(mc_access_order) ELSE <<>>
         kept == IF evicts THEN MapDel(mc_cache, oldest_key) ELSE mc_cache
         order == IF evicts THEN Tail(mc_access_order) ELSE mc_access_order
     IN /\ mc_cache' = MapPut(kept, key, result)
        /\ mc_access_order' = touch(order, key)
        /\ mc_used' = MapPut(IF evicts THEN MapDel(mc_used, oldest_key) ELSE mc_used, key, mc_ops + 1)
        /\ mc_put_at' = MapPut(IF evicts THEN MapDel(mc_put_at, oldest_key) ELSE mc_put_at, key,
                               IF key \in DOMAIN mc_cache THEN mc_put_at[key] ELSE mc_ops + 1)
        /\ mc_last' = [op |-> "put", key |-> key, result |-> result, full_new |-> full_new,
                       evicted |-> oldest_key, lru_before |-> least_recently_used(mc_used),
                       first_before |-> first_stored(mc_put_at)]
  /\ UNCHANGED mc_max_entries
  /\ UNCHANGED <<cacheVars, evalVars, chainVars, depsVars, hunterVars, expandVars, hashVars, clearVars, flagVars, pkgVars, sourceVars, analyzeVars, diskVars, lockVars>>

\* The keys MemoryCache.clear removes: those of the path, or all.
keys_to_remove(cache, filepath) ==
  IF filepath = <<>> THEN DOMAIN cache
  ELSE {k \in DOMAIN cache : key_startswith(k, filepath)}

Restrict(m, keys) == [x \in (DOMAIN m) \ keys |-> m[x]]

\* MemoryCache.clear(filepath): the entries of the path, or all entries
\* when no path is given, leave the cache and the access order.
MemClear(filepath) ==
  /\ mc_ops < MaxMemOps
  /\ mc_ops' = mc_ops + 1
  /\ LET gone == keys_to_remove(mc_cache, filepath)
     IN /\ mc_cache' = Restrict(mc_cache, gone)
        /\ mc_access_order' = SelectSeq(mc_access_order, LAMBDA k : k \notin gone)
        /\ mc_used' = Restrict(mc_used, gone)
        /\ mc_put_at' = Restrict(mc_put_at, gone)
  /\ mc_last' = [op |-> "clear", key |-> filepath, result |-> "None", full_new |-> FALSE,
                 evicted |-> <<>>, lru_before |-> <<>>, first_before |-> <<>>]
  /\ UNCHANGED mc_max_entries
  /\ UNCHANGED <<cacheVars, evalVars, chainVars, depsVars, hunterVars, expandVars, hashVars, clearVars, flagVars, pkgVars, sourceVars, analyzeVars, diskVars, lockVars>>

MemNext ==
  \/ \E filepath \in MemPaths, h \in MemHashes : MemGet(filepath, h)
  \/ \E filepath \in MemPaths, h \in MemHashes, result \in MemResults : MemPut(filepath, h, result)
  \/ \E filepath \in MemPaths \cup {<<>>} : MemClear(filepath)

SpecMem == MemInit /\ [][MemNext]_vars

tree_headers(t, root) == {file_of(node) : node \in t} \ {root}

\* C34: the headers of the include tree generatetree builds for a file are
\* the headers process returns for the same file, command line and
\* preceding calls.
C34_TreeAgreesWithProcess ==
  (hd_mode = "idle" /\ hd_returned.mode = "tree") =>
    tree_headers(hd_returned.result, hd_returned.unit) =
      headerdeps_process(project, hd_returned.unit, hd_command_line_macros, hd_entry_macros)

\* The same for the first call of an engine.
C34_FirstTreeAgreesWithProcess ==
  (hd_mode = "idle" /\ hd_returned.mode = "tree" /\ hd_returned.after[1] = "none") =>
    tree_headers(hd_returned.result, hd_returned.unit) =
      headerdeps_process(project, hd_returned.unit, hd_command_line_macros, hd_entry_macros)

\* ------------------------------------------------------------------------
\* Returned environments and the cache
\* ------------------------------------------------------------------------
\* The entry a get_or_compute_preprocessing call for the file and macros
\* would be answered from, "miss" when there is none.
cached_result(fa, input_macros) ==
  IF is_macro_invariant(fa, input_macros)
  THEN IF content_hash(fa) \in DOMAIN invariant_cache
       THEN invariant_cache[content_hash(fa)] ELSE "miss"
  ELSE IF <<content_hash(fa), make_macro_cache_key(input_macros)>> \in DOMAIN variant_cache
       THEN variant_cache[<<content_hash(fa), make_macro_cache_key(input_macros)>>]
       ELSE "miss"

is_hit(fa, input_macros) ==
  IF is_macro_invariant(fa, input_macros)
  THEN content_hash(fa) \in DOMAIN invariant_cache
  ELSE <<content_hash(fa), make_macro_cache_key(input_macros)>> \in DOMAIN variant_cache

\* C35: the updated_macros a call returns is shared with no cached result:
\* whatever a caller does with a returned environment, the result a later
\* hit on an entry returns is the one the entry held before.
C35_ReturnedEnvNotShared ==
  [][\A fa \in CacheFiles, input_macros \in Envs :
       (is_hit(fa, input_macros) /\ is_hit(fa, input_macros)') =>
         cached_result(fa, input_macros)' = cached_result(fa, input_macros)]_vars

\* ------------------------------------------------------------------------
\* The inner cache of process_structured
\* ------------------------------------------------------------------------
\* C36: a process_structured call answered from the inner cache returns the
\* active lines, and leaves the preprocessor the macros, of a full walk of
\* the same file from the same starting macros.
C36_InnerHitEqualsFullWalk ==
  (last.op = "process_structured" /\ last.how = "hit") =>
    /\ last.result.active_lines = full_walk(last.fa, last.input).active
    /\ last.result.macros = full_walk(last.fa, last.input).macros

\* The part of it that holds: the active lines of a hit are those of the
\* full walk.
C36_InnerHitActiveLines ==
  (last.op = "process_structured" /\ last.how = "hit") =>
    last.result.active_lines = full_walk(last.fa, last.input).active

\* ------------------------------------------------------------------------
\* SpecEval: every recorded directive is handled
\* ------------------------------------------------------------------------
\* The first line of the file that holds a directive of type t.
first_line_of_type(fa, t) ==
  CHOOSE i \in 0..(Len(fa) - 1) :
    /\ fa[i + 1].t = t
    /\ \A j \in 0..(i - 1) : fa[j + 1].t # t

\* The analyzer takes the directive types in the order of their first
\* occurrence and skips a position on a line an earlier directive has already
\* consumed: a directive inside the continuation of another one is recorded
\* only when its type comes up before the type of the enclosing directive.
analyzer_records(fa) ==
  \A i \in 0..(Len(fa) - 1) : \A j \in (i + 1)..(i + fa[i + 1].k) :
    (IsDirective(fa[i + 1]) /\ IsDirective(fa[j + 1])) =>
      first_line_of_type(fa, fa[j + 1].t) < first_line_of_type(fa, fa[i + 1].t)

\* A directive lies inside the continuation of an earlier directive.
has_enclosed_directive(fa) ==
  \E i \in 0..(Len(fa) - 1) : \E j \in (i + 1)..(i + fa[i + 1].k) :
    IsDirective(fa[i + 1]) /\ IsDirective(fa[j + 1])

\* C37: when the loop of process_structured has finished on a file as the
\* analyzer records it, it has taken every directive of directive_by_line,
\* one after the other in ascending line order; none is left unhandled,
\* also when a directive lies inside the continuation of an earlier one.
C37_EveryDirectiveHandled ==
  (analyzer_records(ev_fa) /\ EvalDone) =>
    ev_w.di = Len(directive_lines(ev_fa)) + 1

\* The part of it that holds: without a directive inside a continuation,
\* every directive has been handled when the loop ends.
C37_HandledWithoutEnclosedDirective ==
  (~has_enclosed_directive(ev_fa) /\ EvalDone) =>
    ev_w.di = Len(directive_lines(ev_fa)) + 1

\* ------------------------------------------------------------------------
\* DiskCache in multiuser mode: processes, file locks and cache files
\* ------------------------------------------------------------------------
MaxLockOps == 2

\* DiskCache._lock_timeout and the longest time.sleep of the retry loop
\* (max_delay plus jitter), in clock ticks.
LockTimeout == 2
MaxSleep == 2

LockProcs == {"p1", "p2"}
LockEntries == {<<"/w/a.hpp", "e69de29">>}

\* The flock on a lock file is free, or held by a process of the model, or
\* by a process of another user.
Free == "free"
OtherUser == "other"

\* DiskCache._get_lock_path: .locks/<shard>/<md5 of path>_<content hash>.lock
get_lock_path(filepath, h) == <<".locks", md5_hexdigest(filepath), h>>

\* DiskCache.clear: .locks/global.lock
global_lock_path == <<".locks", "global.lock">>

LockPaths == {get_lock_path(e[1], e[2]) : e \in LockEntries} \cup {global_lock_path}
CachePaths == {get_cache_path(e[1], e[2]) : e \in LockEntries}

LockOp(kind, filepath, h) == [kind |-> kind, filepath |-> filepath, hash |-> h]
NoLockOp == LockOp("none", "", "")

\* clear(None) clears the whole cache.
LockOps ==
  {LockOp(kind, e[1], e[2]) : kind \in {"get", "put"}, e \in LockEntries}
    \cup {LockOp("clear", f, "") : f \in {e[1] : e \in LockEntries} \cup {"None"}}

\* The lock an operation takes: _with_lock for get and put, the global lock
\* for clear.
lock_path_of(op) ==
  IF op.kind = "clear" THEN global_lock_path ELSE get_lock_path(op.filepath, op.hash)

cache_path_of(op) == get_cache_path(op.filepath, op.hash)

\* A retry loop that never gives up.
loop_continues_always(elapsed, timeout) == TRUE

\* while time.time() - start_time < self._timeout
loop_continues(elapsed, timeout) == elapsed < timeout

\* The clock of the model stops counting once the timeout has long passed.
ClockEnd == LockTimeout + MaxSleep

tick(elapsed, d) == IF elapsed + d > ClockEnd THEN ClockEnd ELSE elapsed + d

LockInit ==
  /\ CacheInit /\ NoMem /\ NoDisk /\ NoAnalyze /\ NoSource /\ NoPkg /\ NoFlags /\ NoEval /\ NoChain /\ NoDeps /\ NoHunter /\ NoExpand /\ NoHash
  /\ lk_pc = [p \in LockProcs |-> "idle"]
  /\ lk_op = [p \in LockProcs |-> NoLockOp]
  /\ lk_lock_file = [p \in LockProcs |-> "None"]
  /\ lk_handle_open = [p \in LockProcs |-> FALSE]
  /\ lk_flock = [l \in LockPaths |-> Free]
  /\ lk_elapsed = [p \in LockProcs |-> 0]
  /\ lk_files = [c \in CachePaths |-> "absent"]
  /\ lk_temp = [p \in LockProcs |-> "absent"]
  /\ lk_seen = [p \in LockProcs |-> "nothing"]
  /\ lk_todo = [p \in LockProcs |-> {}]
  /\ lk_nops = 0

LockOthers ==
  UNCHANGED <<cacheVars, clearVars, evalVars, chainVars, depsVars, hunterVars, expandVars, hashVars, flagVars, pkgVars, sourceVars, analyzeVars, diskVars, memVars>>

\* A process calls get, put or clear; __enter__ opens the lock file and
\* takes start_time.
LockEnter(p, op) ==
  /\ lk_pc[p] = "idle"
  /\ lk_nops < MaxLockOps
  /\ lk_op' = [lk_op EXCEPT ![p] = op]
  /\ lk_lock_file' = [lk_lock_file EXCEPT ![p] = "file"]
  /\ lk_handle_open' = [lk_handle_open EXCEPT ![p] = TRUE]
  /\ lk_elapsed' = [lk_elapsed EXCEPT ![p] = 0]
  /\ lk_seen' = [lk_seen EXCEPT ![p] = "nothing"]
  /\ lk_pc' = [lk_pc EXCEPT ![p] = "loop"]
  /\ lk_nops' = lk_nops + 1
  /\ UNCHANGED <<lk_flock, lk_files, lk_temp, lk_todo>>
  /\ LockOthers

\* One turn of the retry loop: flock(LOCK_EX | LOCK_NB) succeeds and
\* __enter__ returns, or it raises and the process goes to sleep.
TryLock(p) ==
  /\ lk_pc[p] = "loop"
  /\ loop_continues(lk_elapsed[p], LockTimeout)
  /\ IF lk_flock[lock_path_of(lk_op[p])] = Free
     THEN /\ lk_flock' = [lk_flock EXCEPT ![lock_path_of(lk_op[p])] = p]
          /\ lk_pc' = [lk_pc EXCEPT ![p] = "held"]
     ELSE /\ lk_pc' = [lk_pc EXCEPT ![p] = "sleep"]
          /\ UNCHANGED lk_flock
  /\ UNCHANGED <<lk_op, lk_lock_file, lk_handle_open, lk_elapsed, lk_files, lk_temp, lk_seen, lk_todo, lk_nops>>
  /\ LockOthers

\* time.sleep(retry_delay + jitter) returns after d ticks.
LockSleep(p, d) ==
  /\ lk_pc[p] = "sleep"
  /\ lk_elapsed' = [lk_elapsed EXCEPT ![p] = tick(@, d)]
  /\ lk_pc' = [lk_pc EXCEPT ![p] = "loop"]
  /\ UNCHANGED <<lk_op, lk_lock_file, lk_handle_open, lk_flock, lk_files, lk_temp, lk_seen, lk_todo, lk_nops>>
  /\ LockOthers

\* The loop has ended: the lock file is closed and TimeoutError leaves the
\* operation.
LockTimedOut(p) ==
  /\ lk_pc[p] = "loop"
  /\ ~loop_continues(lk_elapsed[p], LockTimeout)
  /\ lk_handle_open' = [lk_handle_open EXCEPT ![p] = FALSE]
  /\ lk_lock_file' = [lk_lock_file EXCEPT ![p] = "None"]
  /\ lk_seen' = [lk_seen EXCEPT ![p] = "TimeoutError"]
  /\ lk_pc' = [lk_pc EXCEPT ![p] = "idle"]
  /\ UNCHANGED <<lk_op, lk_flock, lk_elapsed, lk_files, lk_temp, lk_todo, lk_nops>>
  /\ LockOthers

\* get: cache_path.exists()
GetExists(p) ==
  /\ lk_pc[p] = "held"
  /\ lk_op[p].kind = "get"
  /\ IF lk_files[cache_path_of(lk_op[p])] # "absent"
     THEN /\ lk_pc' = [lk_pc EXCEPT ![p] = "get_read"]
          /\ UNCHANGED lk_seen
     ELSE /\ lk_pc' = [lk_pc EXCEPT ![p] = "exit"]
          /\ lk_seen' = [lk_seen EXCEPT ![p] = "None"]
  /\ UNCHANGED <<lk_op, lk_lock_file, lk_handle_open, lk_flock, lk_elapsed, lk_files, lk_temp, lk_todo, lk_nops>>
  /\ LockOthers

\* get: the file is opened and read; a file that has gone raises an OSError,
\* which get answers with None, and bytes that are not a whole entry are
\* deserialized to None and the file is unlinked.
GetRead(p) ==
  /\ lk_pc[p] = "get_read"
  /\ lk_seen' = [lk_seen EXCEPT ![p] =
       IF lk_files[cache_path_of(lk_op[p])] = "absent" THEN "None"
       ELSE lk_files[cache_path_of(lk_op[p])]]
  /\ lk_files' = [lk_files EXCEPT ![cache_path_of(lk_op[p])] =
       IF @ = "partial" THEN "absent" ELSE @]
  /\ lk_pc' = [lk_pc EXCEPT ![p] = "exit"]
  /\ UNCHANGED <<lk_op, lk_lock_file, lk_handle_open, lk_flock, lk_elapsed, lk_temp, lk_todo, lk_nops>>
  /\ LockOthers

\* put: the temporary file is created next to the cache file.
PutCreate(p) ==
  /\ lk_pc[p] = "held"
  /\ lk_op[p].kind = "put"
  /\ lk_temp' = [lk_temp EXCEPT ![p] = "partial"]
  /\ lk_pc' = [lk_pc EXCEPT ![p] = "put_write"]
  /\ UNCHANGED <<lk_op, lk_lock_file, lk_handle_open, lk_flock, lk_elapsed, lk_files, lk_seen, lk_todo, lk_nops>>
  /\ LockOthers

\* put: the serialized data is written and the temporary file closed.
PutWrite(p) ==
  /\ lk_pc[p] = "put_write"
  /\ lk_temp' = [lk_temp EXCEPT ![p] = IF @ = "absent" THEN "absent" ELSE "complete"]
  /\ lk_pc' = [lk_pc EXCEPT ![p] = "put_replace"]
  /\ UNCHANGED <<lk_op, lk_lock_file, lk_handle_open, lk_flock, lk_elapsed, lk_files, lk_seen, lk_todo, lk_nops>>
  /\ LockOthers

\* put: os.replace(temp_path, cache_path); with the temporary file gone it
\* raises an OSError, which put swallows.
PutReplace(p) ==
  /\ lk_pc[p] = "put_replace"
  /\ IF lk_temp[p] # "absent"
     THEN /\ lk_files' = [lk_files EXCEPT ![cache_path_of(lk_op[p])] = lk_temp[p]]
          /\ lk_temp' = [lk_temp EXCEPT ![p] = "absent"]
     ELSE UNCHANGED <<lk_files, lk_temp>>
  /\ lk_pc' = [lk_pc EXCEPT ![p] = "exit"]
  /\ UNCHANGED <<lk_op, lk_lock_file, lk_handle_open, lk_flock, lk_elapsed, lk_seen, lk_todo, lk_nops>>
  /\ LockOthers

\* The temporary file of process q, as an item of a directory.
TempItem(q) == <<"tmp", q>>

\* _clear_unlocked lists what it will remove: the cache files of one path,
\* or everything in the shard directories.
ClearList(p) ==
  /\ lk_pc[p] = "held"
  /\ lk_op[p].kind = "clear"
  /\ lk_todo' = [lk_todo EXCEPT ![p] =
       IF lk_op[p].filepath = "None"
       THEN {c \in CachePaths : lk_files[c] # "absent"}
              \cup {TempItem(q) : q \in {r \in LockProcs : lk_temp[r] # "absent"}}
       ELSE {c \in CachePaths :
               c[1] = md5_hexdigest(lk_op[p].filepath) /\ lk_files[c] # "absent"}]
  /\ lk_pc' = [lk_pc EXCEPT ![p] = "clear_unlink"]
  /\ UNCHANGED <<lk_op, lk_lock_file, lk_handle_open, lk_flock, lk_elapsed, lk_files, lk_temp, lk_seen, lk_nops>>
  /\ LockOthers

\* One listed file is unlinked.
ClearUnlink(p) ==
  /\ lk_pc[p] = "clear_unlink"
  /\ \E item \in lk_todo[p] :
       /\ lk_todo' = [lk_todo EXCEPT ![p] = @ \ {item}]
       /\ IF item \in CachePaths
          THEN /\ lk_files' = [lk_files EXCEPT ![item] = "absent"]
               /\ UNCHANGED lk_temp
          ELSE /\ lk_temp' = [lk_temp EXCEPT ![item[2]] = "absent"]
               /\ UNCHANGED lk_files
  /\ UNCHANGED <<lk_pc, lk_op, lk_lock_file, lk_handle_open, lk_flock, lk_elapsed, lk_seen, lk_nops>>
  /\ LockOthers

ClearFinish(p) ==
  /\ lk_pc[p] = "clear_unlink"
  /\ lk_todo[p] = {}
  /\ lk_pc' = [lk_pc EXCEPT ![p] = "exit"]
  /\ UNCHANGED <<lk_op, lk_lock_file, lk_handle_open, lk_flock, lk_elapsed, lk_files, lk_temp, lk_seen, lk_todo, lk_nops>>
  /\ LockOthers

\* __exit__: with a lock file, flock(LOCK_UN) and close; _lock_file is None
\* afterwards.
LockExit(p) ==
  /\ lk_pc[p] = "exit"
  /\ IF lk_lock_file[p] = "file"
     THEN /\ lk_flock' = [l \in LockPaths |-> IF lk_flock[l] = p THEN Free ELSE lk_flock[l]]
          /\ lk_handle_open' = [lk_handle_open EXCEPT ![p] = FALSE]
     ELSE UNCHANGED <<lk_flock, lk_handle_open>>
  /\ lk_lock_file' = [lk_lock_file EXCEPT ![p] = "None"]
  /\ lk_pc' = [lk_pc EXCEPT ![p] = "idle"]
  /\ UNCHANGED <<lk_op, lk_elapsed, lk_files, lk_temp, lk_seen, lk_todo, lk_nops>>
  /\ LockOthers

\* A process of another user takes a free lock, and may or may not give it
\* back.
OtherUserLocks(l) ==
  /\ lk_flock[l] = Free
  /\ lk_flock' = [lk_flock EXCEPT ![l] = OtherUser]
  /\ UNCHANGED <<lk_pc, lk_op, lk_lock_file, lk_handle_open, lk_elapsed, lk_files, lk_temp, lk_seen, lk_todo, lk_nops>>
  /\ LockOthers

OtherUserUnlocks(l) ==
  /\ lk_flock[l] = OtherUser
  /\ lk_flock' = [lk_flock EXCEPT ![l] = Free]
  /\ UNCHANGED <<lk_pc, lk_op, lk_lock_file, lk_handle_open, lk_elapsed, lk_files, lk_temp, lk_seen, lk_todo, lk_nops>>
  /\ LockOthers

\* The steps a process takes by itself once an operation has been called.
LockRun(p) ==
  \/ TryLock(p)
  \/ \E d \in 1..MaxSleep : LockSleep(p, d)
  \/ LockTimedOut(p)
  \/ GetExists(p)
  \/ GetRead(p)
  \/ PutCreate(p)
  \/ PutWrite(p)
  \/ PutReplace(p)
  \/ ClearList(p)
  \/ ClearUnlink(p)
  \/ ClearFinish(p)
  \/ LockExit(p)

LockNext ==
  \/ \E p \in LockProcs : \E op \in LockOps : LockEnter(p, op)
  \/ \E p \in LockProcs : LockRun(p)
  \/ \E l \in LockPaths : OtherUserLocks(l)
  \/ \E l \in LockPaths : OtherUserUnlocks(l)

SpecLock == LockInit /\ [][LockNext]_vars

\* A running process is scheduled again and again, and its sleep returns;
\* nothing makes another user give a lock back.
SpecLockFair == SpecLock /\ \A p \in LockProcs : WF_vars(LockRun(p))

LockTypeOK ==
  /\ \A p \in LockProcs : lk_elapsed[p] \in 0..ClockEnd
  /\ \A l \in LockPaths : lk_flock[l] \in LockProcs \cup {Free, OtherUser}

\* The process is between the return of __enter__ and the end of the body
\* of its operation.
in_body(p) ==
  lk_pc[p] \in {"held", "get_read", "put_write", "put_replace", "clear_unlink"}

overlap(p, q) == p # q /\ in_body(p) /\ in_body(q)

same_entry(p, q) ==
  /\ lk_op[p].kind \in {"get", "put"}
  /\ lk_op[q].kind \in {"get", "put"}
  /\ cache_path_of(lk_op[p]) = cache_path_of(lk_op[q])

\* C38: in multiuser mode two get/put operations on the same (path, content
\* hash) never overlap, a clear never overlaps a get or a put, and no get
\* has read a partially written entry.
C38_TouchingOperationsExclusive ==
  /\ \A p, q \in LockProcs : overlap(p, q) =>
       /\ ~same_entry(p, q)
       /\ lk_op[p].kind # "clear"
  /\ \A p \in LockProcs : lk_seen[p] # "partial"

\* The parts of it that hold: get and put on one entry exclude each other,
\* and a get reads no entry or a whole one.
C38_SameEntryExclusive ==
  \A p, q \in LockProcs : overlap(p, q) => ~same_entry(p, q)

C38_ReaderSeesWholeEntry ==
  \A p \in LockProcs : lk_seen[p] \in {"nothing", "None", "complete", "TimeoutError"}

\* The process is in the retry loop of __enter__.
waiting(p) == lk_pc[p] \in {"loop", "sleep"}

\* __enter__ has returned and __exit__ has not yet run.
in_context(p) == in_body(p) \/ lk_pc[p] = "exit"

holds_no_lock(flock, p) == \A l \in LockPaths : flock[l] # p

occurred_stand_alone(flags, n, token) ==
  \E k \in 1..Len(flag_entries(SubSeq(flags, 1, n))) :
    flag_entries(SubSeq(flags, 1, n))[k].key = <<"", token>>

\* C40: a turn of the loop that drops a token which is not an
\* argument-taking flag has found the identical token earlier in the input
\* as a stand-alone flag; a token equal to the argument of an earlier
\* flag-argument pair is kept.
C40_DroppedOnlyAsRepeatedFlag ==
  [][(/\ fl_pc = "loop"
      /\ fl_i < Len(fl_flags)
      /\ fl_i' = fl_i + 1
      /\ matched_flag(fl_flags[fl_i + 1]) = ""
      /\ fl_deduplicated' = fl_deduplicated)
       => occurred_stand_alone(fl_flags, fl_i, fl_flags[fl_i + 1])
    ]_vars

\* The part of it that holds: a token that did occur earlier as a
\* stand-alone flag is dropped.
C40_RepeatedFlagDropped ==
  [][(/\ fl_pc = "loop"
      /\ fl_i < Len(fl_flags)
      /\ fl_i' = fl_i + 1
      /\ matched_flag(fl_flags[fl_i + 1]) = ""
      /\ occurred_stand_alone(fl_flags, fl_i, fl_flags[fl_i + 1]))
       => fl_deduplicated' = fl_deduplicated
    ]_vars


====
